---------------------------- MODULE Spec2Model ----------------------------
(***************************************************************************)
(* A model of the conformance test harness of kernel-bindings-tests:      *)
(*   - the response validator      (runner/runner.go, runner/types.go)     *)
(*   - the dependency tracker      (runner/dependency_tracker.go)          *)
(*   - the handler process controller (runner/handler.go)                  *)
(*   - the test runner             (runner.go revision that owns a Handler)*)
(* Each subsystem has its own specification (SpecValidate, SpecTracker,    *)
(* SpecHandler, SpecRun); the variables of the other subsystems are held   *)
(* at their idle values.                                                   *)
(***************************************************************************)
EXTENDS Integers, Sequences, FiniteSets, TLC

VARIABLES
    vTest,      \* validator: the TestCase handed to validateResponse
    vResp,      \* validator: the Response handed to validateResponse
    vErr,       \* validator: the error validateResponse returned ("nil": none)
    dt,         \* tracker: the DependencyTracker's four fields
    allTests,   \* tracker: the test cases handed to the tracker so far
    executed,   \* tracker: how many of them OnTestExecuted has seen
    panicked,   \* tracker: Nil, or the undefined-reference panic raised
    testOutcome, \* tracker: how the test just executed ended ("none": none yet)
    hpc,        \* handler: where the caller of the Handler's methods stands
    child,      \* handler: the child process and its three pipes
    reader,     \* handler: ReadLine's goroutine around stdout.Scan()
    scanDone,   \* handler: ReadLine's channel (capacity 1)
    token,      \* handler: the Scanner's token, h.stdout.Bytes()
    waiter,     \* handler: Close's goroutine around cmd.Wait()
    done,       \* handler: Close's channel (capacity 1)
    timer,      \* handler: seconds left on the pending time.After
    waited,     \* handler: seconds the caller has spent in the pending select
    baseErr,    \* handler: ReadLine's local baseErr
    readResult, \* handler: what the last ReadLine returned
    quiet,      \* handler: no line and no end of output since ReadLine began
    exchanges,  \* handler: requests written by SendLine so far
    rpc,        \* runner: where main / RunTestSuite / runTest stands
    nSuites,    \* runner: the number of test files
    si,         \* runner: test files taken so far
    suite,      \* runner: the suite RunTestSuite is running
    ti,         \* runner: index (from 1) of the suite's next test
    results,    \* runner: RunTestSuite's result.TestResults
    skipTests,  \* runner: the suite has short-circuited
    ctxDone,    \* runner: the run's context is past its deadline
    tr,         \* runner: the TestRunner and the processes it spawned
    requests,   \* runner: request lines written for the current test
    expiredAtCheck, \* runner: ctxDone as the current test began
    lastEvent,   \* runner: what the runner's last step did
    xParams,    \* extraction: the params handed to extractRefsFromParams
    xRefs,       \* extraction: Nil, or the refs extractRefsFromParams returned
    spc,        \* spawn: where NewHandler stands
    cfg,        \* spawn: the HandlerConfig given to NewHandler
    freeFds,    \* spawn: descriptors the harness process may still open
    pipes,      \* spawn: the pipe ends open in the harness process
    started,    \* spawn: a child process exists
    spawnErr,    \* spawn: the error NewHandler returned ("nil": none)
    prog,       \* handlers: which shipped handler program runs
    embedded,   \* handlers: the embedded test files the mock handler answers from
    stdinLines, \* handlers: the lines on the program's standard input
    nRead,      \* handlers: how many of them its Scanner has returned
    stdoutLines,\* handlers: the lines it has written to standard output
    stderrLines,\* handlers: how many lines it has written to standard error
    progExit,    \* handlers: "running", or how the program ended
    totalPassed,\* main: passed tests of the suites run so far
    totalFailed,\* main: failed tests of the suites run so far
    totalTests, \* main: tests of the suites run so far
    tallies,    \* main: the TestResult tallies printed, one per suite run
    exitCode,   \* main: "running", or the exit status of the harness
    suiteResults, \* main: the TestResults of the suite last run
    filesLeft,  \* main: test files not yet taken
    statefulPid, \* runner: the last process a finished stateful suite used
    anyFailed,   \* runner: main's totalFailed > 0
    pairPc,     \* pairing: where runTest stands ("send", "read")
    pairTest,   \* pairing: index (from 1) of the test runTest is given
    pairHandler,\* pairing: tr.handler, Nil or the process it talks to
    pairProcs,  \* pairing: the handler processes spawned, with their pipes
    pairLog,     \* pairing: per test, the process written to and the line read
    state,      \* go-handler: the SessionState (chainstateManager, tempDir)
    tempDirs,   \* go-handler: the temp directories that exist on disk
    made,       \* go-handler: temp directories created so far
    handled,    \* go-handler: requests handleRequest has been given
    sessReq,    \* go-handler: the request handled last
    sessResp,   \* go-handler: the response to it
    lastSetup   \* go-handler: how the last setup or teardown ended

valVars == <<vTest, vResp, vErr>>

trackerVars == <<dt, allTests, executed, panicked, testOutcome>>

handlerVars ==
    <<hpc, child, reader, scanDone, token, waiter, done, timer, waited,
      baseErr, readResult, quiet, exchanges>>

runVars ==
    <<rpc, nSuites, si, suite, ti, results, skipTests, ctxDone, tr, requests,
      expiredAtCheck, lastEvent>>

extractVars == <<xParams, xRefs>>

spawnVars == <<spc, cfg, freeFds, pipes, started, spawnErr>>

progVars == <<prog, embedded, stdinLines, nRead, stdoutLines, stderrLines, progExit>>

mainVars ==
    <<totalPassed, totalFailed, totalTests, tallies, exitCode, suiteResults,
      filesLeft>>

carryVars == <<statefulPid, anyFailed>>

pairVars == <<pairPc, pairTest, pairHandler, pairProcs, pairLog>>

sessionVars == <<state, tempDirs, made, handled, sessReq, sessResp, lastSetup>>

vars == <<valVars, trackerVars, handlerVars, runVars, extractVars, spawnVars, progVars, mainVars, carryVars, pairVars, sessionVars>>

(***************************************************************************)
(* Go pointers: nil is the empty sequence, a non-nil pointer is a          *)
(* one-element sequence holding the pointee.                               *)
(***************************************************************************)
Nil == <<>>

Ptr(x) == <<x>>

Deref(p) == p[1]

(***************************************************************************)
(* JSON texts (json.RawMessage) are sequences of tokens. " " is            *)
(* insignificant whitespace. The nil RawMessage is the empty sequence.     *)
(***************************************************************************)
WS == " "

KeyOrder == <<"\"a\"", "\"b\"", "\"ref\"">>

JsonKeys == {KeyOrder[i] : i \in 1..Len(KeyOrder)}

(* The JSON string literals of the model and the characters of the Go      *)
(* string each one decodes to.                                             *)
StringTokens == {"\"$a\"", "\"$b\"", "\"$\"", "\"deadbeef\""}

StrChars(tok) ==
    CASE tok = "\"$a\"" -> <<"$", "a">>
      [] tok = "\"$b\"" -> <<"$", "b">>
      [] tok = "\"$\"" -> <<"$">>
      [] OTHER -> <<"d", "e", "a", "d", "b", "e", "e", "f">>

(* The JSON number literals of the model and their decimal digits: the     *)
(* integer part and the fraction part.                                     *)
NumberTokens == {"1", "1.0", "2", "9007199254740992", "9007199254740993"}

DecimalDigits(tok) ==
    CASE tok = "1" -> [int |-> <<1>>, frac |-> <<>>]
      [] tok = "1.0" -> [int |-> <<1>>, frac |-> <<0>>]
      [] tok = "2" -> [int |-> <<2>>, frac |-> <<>>]
      [] tok = "9007199254740992" ->
           [int |-> <<9, 0, 0, 7, 1, 9, 9, 2, 5, 4, 7, 4, 0, 9, 9, 2>>,
            frac |-> <<>>]
      [] OTHER ->
           [int |-> <<9, 0, 0, 7, 1, 9, 9, 2, 5, 4, 7, 4, 0, 9, 9, 3>>,
            frac |-> <<>>]

ScalarTokens == {"null", "true", "false"} \cup NumberTokens \cup StringTokens

(* 2^53 in decimal digits: a float64 holds every integer below it, and     *)
(* every second integer from it up to 2^54.                                *)
TwoTo53 == <<9, 0, 0, 7, 1, 9, 9, 2, 5, 4, 7, 4, 0, 9, 9, 2>>

(* a < b for two integers written without leading zeros.                   *)
RECURSIVE DigitsLess(_, _)
DigitsLess(a, b) ==
    IF Len(a) # Len(b) THEN Len(a) < Len(b)
    ELSE IF Len(a) = 0 THEN FALSE
    ELSE IF a[1] # b[1] THEN a[1] < b[1]
    ELSE DigitsLess(Tail(a), Tail(b))

(* n + 1 in decimal digits.                                                *)
RECURSIVE DigitsSucc(_)
DigitsSucc(ds) ==
    IF Len(ds) = 0 THEN <<1>>
    ELSE IF ds[Len(ds)] < 9
    THEN SubSeq(ds, 1, Len(ds) - 1) \o <<ds[Len(ds)] + 1>>
    ELSE DigitsSucc(SubSeq(ds, 1, Len(ds) - 1)) \o <<0>>

(* n mod 4, from the last two digits.                                      *)
DigitsMod4(ds) ==
    IF Len(ds) = 1 THEN ds[1] % 4
    ELSE (10 * ds[Len(ds) - 1] + ds[Len(ds)]) % 4

(* An integer below 2^54 rounded to the nearest float64, ties to the even  *)
(* mantissa: kept below 2^53; from 2^53 on an odd n lies halfway between   *)
(* n - 1 and n + 1 and goes to the one that is a multiple of 4.            *)
RoundToFloat64(ds) ==
    IF DigitsLess(ds, TwoTo53) THEN ds
    ELSE IF ds[Len(ds)] % 2 = 0 THEN ds
    ELSE IF DigitsMod4(ds) = 3 THEN DigitsSucc(ds)
    ELSE SubSeq(ds, 1, Len(ds) - 1) \o <<ds[Len(ds)] - 1>>

(* strconv.ParseFloat(tok, 64), for the literals of the model: their       *)
(* fraction digits are all zero.                                           *)
ParseFloat(tok) == RoundToFloat64(DecimalDigits(tok).int)

DigitText(d) ==
    CASE d = 0 -> "0" [] d = 1 -> "1" [] d = 2 -> "2" [] d = 3 -> "3"
      [] d = 4 -> "4" [] d = 5 -> "5" [] d = 6 -> "6" [] d = 7 -> "7"
      [] d = 8 -> "8" [] OTHER -> "9"

(* json.Marshal of a float64 that is an integer below 1e21: its digits.    *)
RECURSIVE FormatFloat(_)
FormatFloat(ds) ==
    IF Len(ds) = 0 THEN ""
    ELSE DigitText(ds[1]) \o FormatFloat(Tail(ds))

(* encoding/json decodes every number into a float64 and prints it back in *)
(* its shortest form: 1 and 1.0 are the same value, and so are two         *)
(* integers that round to the same float64.                                *)
ScalarValue(tok) ==
    IF tok \in NumberTokens THEN FormatFloat(ParseFloat(tok)) ELSE tok

StripWS(toks) == SelectSeq(toks, LAMBDA t : t # WS)

(* The position of the "}" that closes the object opened before position  *)
(* i at nesting depth 1; 0 when there is none.                             *)
RECURSIVE MatchingBrace(_, _, _)
MatchingBrace(toks, i, depth) ==
    IF i > Len(toks) THEN 0
    ELSE IF toks[i] = "{" THEN MatchingBrace(toks, i + 1, depth + 1)
    ELSE IF toks[i] = "}"
    THEN IF depth = 1 THEN i ELSE MatchingBrace(toks, i + 1, depth - 1)
    ELSE MatchingBrace(toks, i + 1, depth)

(* The text json.Marshal prints for a decoded object: keys sorted, no       *)
(* whitespace.                                                             *)
RECURSIVE MembersText(_, _, _)
MembersText(members, i, first) ==
    IF i > Len(KeyOrder) THEN ""
    ELSE IF KeyOrder[i] \in DOMAIN members
    THEN (IF first THEN "" ELSE ",")
         \o KeyOrder[i] \o ":" \o members[KeyOrder[i]]
         \o MembersText(members, i + 1, FALSE)
    ELSE MembersText(members, i + 1, first)

(* The members of an object, from the tokens between the braces:           *)
(* key : value (, key : value)*, a value being a scalar or an object. A    *)
(* repeated key keeps its last value. A member that is itself an object    *)
(* is held as its marshalled text, which is no string literal.             *)
RECURSIVE ParseMembers(_, _)
ParseMembers(toks, acc) ==
    IF Len(toks) = 0 THEN [ok |-> TRUE, members |-> acc]
    ELSE IF Len(toks) >= 3 /\ toks[1] \in JsonKeys /\ toks[2] = ":"
    THEN LET end == IF toks[3] \in ScalarTokens THEN 3
                    ELSE IF toks[3] = "{" THEN MatchingBrace(toks, 4, 1)
                    ELSE 0
             inner == IF end > 3
                      THEN ParseMembers(SubSeq(toks, 4, end - 1),
                                        [k \in {} |-> "null"])
                      ELSE [ok |-> end = 3, members |-> [k \in {} |-> "null"]]
             value == IF end = 3 THEN ScalarValue(toks[3])
                      ELSE "{" \o MembersText(inner.members, 1, TRUE) \o "}"
             acc2 == [k \in DOMAIN acc \cup {toks[1]} |->
                         IF k = toks[1] THEN value ELSE acc[k]]
         IN IF end = 0 \/ ~inner.ok THEN [ok |-> FALSE, members |-> acc]
            ELSE IF Len(toks) = end THEN [ok |-> TRUE, members |-> acc2]
            ELSE IF Len(toks) >= end + 2 /\ toks[end + 1] = ","
                 THEN ParseMembers(SubSeq(toks, end + 2, Len(toks)), acc2)
                 ELSE [ok |-> FALSE, members |-> acc]
    ELSE [ok |-> FALSE, members |-> acc]

EmptyMembers == [k \in {} |-> "null"]

(* json.Unmarshal(r, &v) with v interface{}: the value of a JSON text.     *)
jsonUnmarshal(raw) ==
    LET toks == StripWS(raw) IN
    IF Len(toks) = 1 /\ toks[1] \in ScalarTokens
    THEN [ok |-> TRUE, kind |-> "scalar", scalar |-> ScalarValue(toks[1]),
          members |-> EmptyMembers]
    ELSE IF Len(toks) >= 2 /\ toks[1] = "{" /\ toks[Len(toks)] = "}"
    THEN LET m == ParseMembers(SubSeq(toks, 2, Len(toks) - 1), EmptyMembers)
         IN [ok |-> m.ok, kind |-> "object", scalar |-> "null",
             members |-> m.members]
    ELSE [ok |-> FALSE, kind |-> "scalar", scalar |-> "null",
          members |-> EmptyMembers]

(* json.Marshal of a map prints the keys in sorted order, no whitespace.   *)
RECURSIVE MarshalMembers(_, _, _)
MarshalMembers(members, i, first) ==
    IF i > Len(KeyOrder) THEN <<>>
    ELSE IF KeyOrder[i] \in DOMAIN members
    THEN (IF first THEN <<>> ELSE <<",">>)
         \o <<KeyOrder[i], ":", members[KeyOrder[i]]>>
         \o MarshalMembers(members, i + 1, FALSE)
    ELSE MarshalMembers(members, i + 1, first)

jsonMarshal(v) ==
    IF v.kind = "scalar" THEN <<v.scalar>>
    ELSE <<"{">> \o MarshalMembers(v.members, 1, TRUE) \o <<"}">>

(* Result.IsNullOrOmitted: r == nil || string(r) == "null"                 *)
IsNullOrOmitted(r) == r = <<>> \/ r = <<"null">>

(* Result.Normalize: parse and re-marshal; err when the text does not parse *)
Normalize(r) ==
    LET v == jsonUnmarshal(r) IN
    IF ~v.ok THEN [err |-> TRUE, text |-> <<>>]
    ELSE [err |-> FALSE, text |-> jsonMarshal(v)]


(***************************************************************************)
(* validateResponse and its two halves. The returned error is modelled by  *)
(* the message's fixed part; "nil" is the nil error (the response passes). *)
(***************************************************************************)
validateResponseForErrorNoResultCheck(test, resp) ==
    IF test.Expected.Error = Nil THEN "panic"
    ELSE IF resp.Error = Nil THEN "expected error, but got no error"
    ELSE IF Deref(test.Expected.Error).Code # Nil
    THEN IF Deref(resp.Error).Code = Nil
         THEN "expected error code, but got error with no code"
         ELSE IF Deref(Deref(resp.Error).Code).Type
                     # Deref(Deref(test.Expected.Error).Code).Type
         THEN "expected error type"
         ELSE IF Deref(Deref(resp.Error).Code).Member
                     # Deref(Deref(test.Expected.Error).Code).Member
         THEN "expected error member"
         ELSE "nil"
    ELSE "nil"

validateResponseForErrorTypeOnly(test, resp) ==
    IF test.Expected.Error = Nil THEN "panic"
    ELSE IF resp.Error = Nil THEN "expected error, but got no error"
    ELSE IF ~IsNullOrOmitted(resp.Result)
    THEN "expected result to be null or omitted when error is present"
    ELSE IF Deref(test.Expected.Error).Code # Nil
    THEN IF Deref(resp.Error).Code = Nil
         THEN "expected error code, but got error with no code"
         ELSE IF Deref(Deref(resp.Error).Code).Type
                     # Deref(Deref(test.Expected.Error).Code).Type
         THEN "expected error type"
         ELSE "nil"
    ELSE "nil"

(* A validateResponseForError that takes an error without a code for no    *)
(* error at all.                                                           *)
validateResponseForErrorCodelessIsAbsent(test, resp) ==
    IF test.Expected.Error = Nil THEN "panic"
    ELSE IF resp.Error = Nil \/ Deref(resp.Error).Code = Nil
    THEN "expected error, but got no error"
    ELSE IF ~IsNullOrOmitted(resp.Result)
    THEN "expected result to be null or omitted when error is present"
    ELSE IF Deref(test.Expected.Error).Code # Nil
    THEN IF Deref(Deref(resp.Error).Code).Type
                     # Deref(Deref(test.Expected.Error).Code).Type
         THEN "expected error type"
         ELSE IF Deref(Deref(resp.Error).Code).Member
                     # Deref(Deref(test.Expected.Error).Code).Member
         THEN "expected error member"
         ELSE "nil"
    ELSE "nil"

validateResponseForError(test, resp) ==
    IF test.Expected.Error = Nil THEN "panic"
    ELSE IF resp.Error = Nil THEN "expected error, but got no error"
    ELSE IF ~IsNullOrOmitted(resp.Result)
    THEN "expected result to be null or omitted when error is present"
    ELSE IF Deref(test.Expected.Error).Code # Nil
    THEN IF Deref(resp.Error).Code = Nil
         THEN "expected error code, but got error with no code"
         ELSE IF Deref(Deref(resp.Error).Code).Type
                     # Deref(Deref(test.Expected.Error).Code).Type
         THEN "expected error type"
         ELSE IF Deref(Deref(resp.Error).Code).Member
                     # Deref(Deref(test.Expected.Error).Code).Member
         THEN "expected error member"
         ELSE "nil"
    ELSE "nil"

validateResponseForSuccessIgnoresActualWhenNull(test, resp) ==
    IF test.Expected.Error # Nil THEN "panic"
    ELSE IF resp.Error # Nil THEN "expected success with no error, but got error"
    ELSE IF IsNullOrOmitted(test.Expected.Result) THEN "nil"
    ELSE LET expectedNorm == Normalize(test.Expected.Result)
             actualNorm == Normalize(resp.Result)
         IN IF expectedNorm.err THEN "failed to normalize expected result"
            ELSE IF actualNorm.err THEN "failed to normalize actual result"
            ELSE IF expectedNorm.text # actualNorm.text THEN "result mismatch"
            ELSE "nil"

validateResponseForSuccess(test, resp) ==
    IF test.Expected.Error # Nil THEN "panic"
    ELSE IF resp.Error # Nil THEN "expected success with no error, but got error"
    ELSE IF IsNullOrOmitted(test.Expected.Result)
    THEN IF ~IsNullOrOmitted(resp.Result)
         THEN "expected null or omitted result"
         ELSE "nil"
    ELSE LET expectedNorm == Normalize(test.Expected.Result)
             actualNorm == Normalize(resp.Result)
         IN IF expectedNorm.err THEN "failed to normalize expected result"
            ELSE IF actualNorm.err THEN "failed to normalize actual result"
            ELSE IF expectedNorm.text # actualNorm.text THEN "result mismatch"
            ELSE "nil"

(* A validateResponse that does not compare the ids.                       *)
validateResponseIgnoresID(test, resp) ==
    IF test.Expected.Error # Nil THEN validateResponseForError(test, resp)
    ELSE validateResponseForSuccess(test, resp)

validateResponse(test, resp) ==
    IF resp.ID # test.ID THEN "response ID mismatch"
    ELSE IF test.Expected.Error # Nil THEN validateResponseForError(test, resp)
    ELSE validateResponseForSuccess(test, resp)

(***************************************************************************)
(* The dependency tracker (runner/dependency_tracker.go). Test indices are *)
(* Go's, from 0: test i is allTests[i + 1].                                *)
(***************************************************************************)
SeqToSet(s) == {s[i] : i \in 1..Len(s)}

RECURSIVE SortedSeq(_)
SortedSeq(S) ==
    IF S = {} THEN <<>>
    ELSE LET m == CHOOSE x \in S : \A y \in S : x <= y
         IN <<m>> \o SortedSeq(S \ {m})

(* A merge that concatenates the chains in the order they are given.       *)
RECURSIVE mergeConcatenated(_)
mergeConcatenated(chains) ==
    IF Len(chains) = 0 THEN <<>>
    ELSE Head(chains) \o mergeConcatenated(Tail(chains))

(* mergeSortedUnique(chains...): the sorted, duplicate-free union.         *)
mergeSortedUnique(chains) ==
    SortedSeq(UNION {SeqToSet(chains[k]) : k \in 1..Len(chains)})

NewDependencyTracker ==
    [refCreators |-> [r \in {} |-> 0],
     statefulRefs |-> {},
     depChains |-> [i \in {} |-> <<>>],
     stateDependencies |-> <<>>]

stateMutatingMethods == {"btck_chainstate_manager_process_block"}

(* extractRefsFromParams: the top-level string values of params that are   *)
(* longer than one character and start with "$", one entry per key.        *)
RECURSIVE RefsOfKeys(_, _)
RefsOfKeys(members, i) ==
    IF i > Len(KeyOrder) THEN <<>>
    ELSE LET k == KeyOrder[i] IN
         (IF /\ k \in DOMAIN members
             /\ members[k] \in StringTokens
             /\ Len(StrChars(members[k])) > 1
             /\ StrChars(members[k])[1] = "$"
          THEN <<members[k]>> ELSE <<>>)
         \o RefsOfKeys(members, i + 1)

Methods ==
    {"btck_context_create", "btck_chainstate_manager_create",
     "btck_chainstate_manager_process_block", "btck_block_create"}

ParamsTexts ==
    { <<"{", "}">>,
      <<"{", "\"a\"", ":", "\"$a\"", ",", "\"b\"", ":", "\"deadbeef\"", "}">>,
      <<"{", "\"a\"", ":", "\"$b\"", ",", "\"b\"", ":", "\"$b\"", "}">>,
      <<"{", "\"a\"", ":", "\"$a\"", ",", "\"b\"", ":", "\"$b\"", "}">> }

(* extractRefsFromParams, as computed: the params are decoded and the      *)
(* top-level strings that name a reference are collected.                  *)
refsOfDecodedParams(params) ==
    LET v == jsonUnmarshal(params) IN
    IF ~v.ok \/ v.kind # "object" THEN <<>>
    ELSE RefsOfKeys(v.members, 1)

(* Its values for the params of the tracker's test cases, computed once.   *)
RefsOfParamsTexts == [p \in ParamsTexts |-> refsOfDecodedParams(p)]

extractRefsFromParams(params) ==
    IF params \in ParamsTexts
    THEN RefsOfParamsTexts[params]
    ELSE refsOfDecodedParams(params)

(* extractRefFromExpected: the expected result when it is a string longer  *)
(* than one character starting with "$", else the empty string.            *)
extractRefFromExpected(expected) ==
    LET toks == StripWS(expected.Result) IN
    IF /\ Len(toks) = 1
       /\ toks[1] \in StringTokens
       /\ Len(StrChars(toks[1])) > 1
       /\ StrChars(toks[1])[1] = "$"
    THEN toks[1] ELSE ""

(* The references of test's params that no earlier test created: each one  *)
(* makes BuildDependenciesForTest panic.                                   *)
UndefinedRefs(d, test) ==
    {r \in SeqToSet(extractRefsFromParams(test.Request.Params)) :
        r \notin DOMAIN d.refCreators}

(* parentChains: for each used ref, its creator and the creator's chain.   *)
RECURSIVE ParentChains(_, _)
ParentChains(d, refs) ==
    IF Len(refs) = 0 THEN <<>>
    ELSE LET creatorIdx == d.refCreators[Head(refs)] IN
         <<<<creatorIdx>>>>
         \o (IF creatorIdx \in DOMAIN d.depChains
             THEN <<d.depChains[creatorIdx]>> ELSE <<>>)
         \o ParentChains(d, Tail(refs))

RECURSIVE DirectParentChains(_, _)
DirectParentChains(d, refs) ==
    IF Len(refs) = 0 THEN <<>>
    ELSE <<<<d.refCreators[Head(refs)]>>>> \o DirectParentChains(d, Tail(refs))

WithDepChain(d, testIndex, chain) ==
    [d EXCEPT !.depChains =
        [i \in DOMAIN d.depChains \cup {testIndex} |->
            IF i = testIndex THEN chain ELSE d.depChains[i]]]

BuildDependenciesForTestDirectOnly(d, testIndex, test) ==
    WithDepChain(d, testIndex, mergeSortedUnique(
        DirectParentChains(d, extractRefsFromParams(test.Request.Params))))

(* BuildDependenciesForTest, when no used ref is undefined.                *)
BuildDependenciesForTest(d, testIndex, test) ==
    WithDepChain(d, testIndex, mergeSortedUnique(
        ParentChains(d, extractRefsFromParams(test.Request.Params))))

(* An OnTestExecuted that marks every registered ref as stateful.          *)
OnTestExecutedMarksEveryRef(d, testIndex, test) ==
    LET ref == extractRefFromExpected(test.ExpectedResponse)
        d1 == IF ref # ""
              THEN [d EXCEPT
                      !.refCreators =
                          [r \in DOMAIN d.refCreators \cup {ref} |->
                              IF r = ref THEN testIndex ELSE d.refCreators[r]],
                      !.statefulRefs = d.statefulRefs \cup {ref}]
              ELSE d
    IN IF test.Request.Method \in stateMutatingMethods
       THEN LET mutatorChain == Append(d1.depChains[testIndex], testIndex)
            IN [d1 EXCEPT !.stateDependencies =
                   mergeSortedUnique(<<d1.stateDependencies, mutatorChain>>)]
       ELSE d1

(* An OnTestExecuted that records a state-mutating test without its        *)
(* dependency chain.                                                       *)
OnTestExecutedWithoutChain(d, testIndex, test) ==
    LET ref == extractRefFromExpected(test.ExpectedResponse)
        d1 == IF ref # ""
              THEN [d EXCEPT
                      !.refCreators =
                          [r \in DOMAIN d.refCreators \cup {ref} |->
                              IF r = ref THEN testIndex ELSE d.refCreators[r]],
                      !.statefulRefs =
                          IF \/ test.Request.Method = "btck_context_create"
                             \/ test.Request.Method
                                    = "btck_chainstate_manager_create"
                          THEN d.statefulRefs \cup {ref}
                          ELSE d.statefulRefs]
              ELSE d
    IN IF test.Request.Method \in stateMutatingMethods
       THEN [d1 EXCEPT !.stateDependencies =
                mergeSortedUnique(<<d1.stateDependencies, <<testIndex>>>>)]
       ELSE d1

(* An OnTestExecuted that drops the stateful mark of a ref when another    *)
(* method registers it again.                                              *)
OnTestExecutedClearsMark(d, testIndex, test) ==
    LET ref == extractRefFromExpected(test.ExpectedResponse)
        d1 == IF ref # ""
              THEN [d EXCEPT
                      !.refCreators =
                          [r \in DOMAIN d.refCreators \cup {ref} |->
                              IF r = ref THEN testIndex ELSE d.refCreators[r]],
                      !.statefulRefs =
                          IF \/ test.Request.Method = "btck_context_create"
                             \/ test.Request.Method
                                    = "btck_chainstate_manager_create"
                          THEN d.statefulRefs \cup {ref}
                          ELSE d.statefulRefs \ {ref}]
              ELSE d
    IN IF test.Request.Method \in stateMutatingMethods
       THEN LET mutatorChain == Append(d1.depChains[testIndex], testIndex)
            IN [d1 EXCEPT !.stateDependencies =
                   mergeSortedUnique(<<d1.stateDependencies, mutatorChain>>)]
       ELSE d1

OnTestExecuted(d, testIndex, test) ==
    LET ref == extractRefFromExpected(test.ExpectedResponse)
        d1 == IF ref # ""
              THEN [d EXCEPT
                      !.refCreators =
                          [r \in DOMAIN d.refCreators \cup {ref} |->
                              IF r = ref THEN testIndex ELSE d.refCreators[r]],
                      !.statefulRefs =
                          IF \/ test.Request.Method = "btck_context_create"
                             \/ test.Request.Method
                                    = "btck_chainstate_manager_create"
                          THEN d.statefulRefs \cup {ref}
                          ELSE d.statefulRefs]
              ELSE d
    IN IF test.Request.Method \in stateMutatingMethods
       THEN LET mutatorChain == Append(d1.depChains[testIndex], testIndex)
            IN [d1 EXCEPT !.stateDependencies =
                   mergeSortedUnique(<<d1.stateDependencies, mutatorChain>>)]
       ELSE d1

testUsesStatefulRefs(d, testIndex, tests) ==
    \/ \E k \in 1..Len(d.depChains[testIndex]) :
          \E r \in SeqToSet(extractRefsFromParams(
                       tests[d.depChains[testIndex][k] + 1].Request.Params)) :
              r \in d.statefulRefs
    \/ \E r \in SeqToSet(extractRefsFromParams(
                    tests[testIndex + 1].Request.Params)) :
          r \in d.statefulRefs

(* A BuildRequestChain that answers a test touching a stateful reference   *)
(* with the state-dependency set alone.                                    *)
BuildRequestChainStateOnly(d, testIndex, tests) ==
    IF testUsesStatefulRefs(d, testIndex, tests)
    THEN d.stateDependencies
    ELSE d.depChains[testIndex]

BuildRequestChain(d, testIndex, tests) ==
    LET refDepChain == d.depChains[testIndex] IN
    IF testUsesStatefulRefs(d, testIndex, tests)
    THEN mergeSortedUnique(<<refDepChain, d.stateDependencies>>)
    ELSE refDepChain

(***************************************************************************)
(* The inputs of the tracker: the test cases of a suite.                   *)
(***************************************************************************)
MaxTests == 3

ExpectedResults == { <<>>, <<"\"$a\"">>, <<"\"$b\"">> }

TrackerTests ==
    [Request : [Method : Methods, Params : ParamsTexts],
     ExpectedResponse : [Result : ExpectedResults]]

TrackerIdle ==
    /\ dt = NewDependencyTracker
    /\ allTests = <<>>
    /\ executed = 0
    /\ panicked = Nil
    /\ testOutcome = "none"

(* A BuildDependenciesForTest that passes over a ref without a creator     *)
(* instead of panicking.                                                   *)
BuildDependenciesSkipsUndefined ==
    /\ panicked = Nil
    /\ executed = Len(allTests)
    /\ Len(allTests) < MaxTests
    /\ \E test \in TrackerTests :
          LET testIndex == Len(allTests)
              known == SelectSeq(extractRefsFromParams(test.Request.Params),
                                 LAMBDA r : r \in DOMAIN dt.refCreators)
          IN /\ dt' = WithDepChain(dt, testIndex,
                                   mergeSortedUnique(ParentChains(dt, known)))
             /\ allTests' = Append(allTests, test)
             /\ testOutcome' = "none"
             /\ UNCHANGED <<executed, panicked>>
    /\ UNCHANGED <<valVars, handlerVars, runVars, extractVars, spawnVars, progVars, mainVars, carryVars, pairVars, sessionVars>>

(* RunTestSuite's call of BuildDependenciesForTest for the next test: it   *)
(* panics on a ref no earlier test created, else stores the test's chain.  *)
BuildDependencies ==
    /\ panicked = Nil
    /\ executed = Len(allTests)
    /\ Len(allTests) < MaxTests
    /\ \E test \in TrackerTests :
          LET testIndex == Len(allTests) IN
          IF UndefinedRefs(dt, test) # {}
          THEN /\ \E r \in UndefinedRefs(dt, test) :
                      panicked' = Ptr([testIndex |-> testIndex, ref |-> r])
               /\ testOutcome' = "none"
               /\ UNCHANGED <<dt, allTests, executed>>
          ELSE /\ dt' = BuildDependenciesForTest(dt, testIndex, test)
               /\ allTests' = Append(allTests, test)
               /\ testOutcome' = "none"
               /\ UNCHANGED <<executed, panicked>>
    /\ UNCHANGED <<valVars, handlerVars, runVars, extractVars, spawnVars, progVars, mainVars, carryVars, pairVars, sessionVars>>

Outcomes == {"passed", "failed"}

(* A RunTestSuite that calls OnTestExecuted only for a test that passed.   *)
TestExecutedOnlyWhenPassed ==
    /\ panicked = Nil
    /\ executed < Len(allTests)
    /\ \E o \in Outcomes :
          /\ testOutcome' = o
          /\ dt' = IF o = "passed"
                   THEN OnTestExecuted(dt, executed, allTests[executed + 1])
                   ELSE dt
    /\ executed' = executed + 1
    /\ UNCHANGED <<allTests, panicked>>
    /\ UNCHANGED <<valVars, handlerVars, runVars, extractVars, spawnVars, progVars, mainVars, carryVars, pairVars, sessionVars>>

(* RunTestSuite's call of OnTestExecuted once the test has run, however    *)
(* the test ended: OnTestExecuted is given the test case, not its result.  *)
TestExecuted ==
    /\ panicked = Nil
    /\ executed < Len(allTests)
    /\ \E o \in Outcomes : testOutcome' = o
    /\ dt' = OnTestExecuted(dt, executed, allTests[executed + 1])
    /\ executed' = executed + 1
    /\ UNCHANGED <<allTests, panicked>>
    /\ UNCHANGED <<valVars, handlerVars, runVars, extractVars, spawnVars, progVars, mainVars, carryVars, pairVars, sessionVars>>

(***************************************************************************)
(* The handler process controller (runner/handler.go). The caller's        *)
(* position hpc moves through SendLine, ReadLine and Close; the child      *)
(* process, ReadLine's scanning goroutine, Close's waiting goroutine and   *)
(* the passing of time are separate actions that interleave with it.       *)
(***************************************************************************)
ErrHandlerTimeout == "handler timeout"

ErrHandlerClosed == "handler closed unexpectedly"

ErrTooLong == "bufio.Scanner: token too long"

ErrBrokenPipe == "write: broken pipe"

ReadTimeout == 10

CloseGrace == 5

MaxExchanges == 2

NoChild ==
    [state |-> "none", killed |-> FALSE, stdinOpen |-> FALSE, pending |-> 0,
     out |-> <<>>, wrote |-> <<>>, stderr |-> FALSE]

NoLine == [n |-> 0, text |-> ""]

NoResult == [err |-> "none", withStderr |-> FALSE, line |-> NoLine]

HandlerIdle ==
    /\ hpc = "none"
    /\ child = NoChild
    /\ reader = "none"
    /\ scanDone = <<>>
    /\ token = NoLine
    /\ waiter = "none"
    /\ done = <<>>
    /\ timer = 0
    /\ waited = 0
    /\ baseErr = "nil"
    /\ readResult = NoResult
    /\ quiet = FALSE
    /\ exchanges = 0

(* NewHandler, when cmd.Start() succeeds: a running child with its three   *)
(* pipes open and nothing written yet.                                     *)
NewHandler ==
    /\ hpc = "ready"
    /\ child = [state |-> "running", killed |-> FALSE, stdinOpen |-> TRUE,
                pending |-> 0, out |-> <<>>, wrote |-> <<>>,
                stderr |-> FALSE]
    /\ reader = "none"
    /\ scanDone = <<>>
    /\ token = NoLine
    /\ waiter = "none"
    /\ done = <<>>
    /\ timer = 0
    /\ waited = 0
    /\ baseErr = "nil"
    /\ readResult = NoResult
    /\ quiet = FALSE
    /\ exchanges = 0

(* SendLine: one write to stdin; it fails when the child has exited.       *)
SendLine ==
    /\ hpc = "ready"
    /\ exchanges < MaxExchanges
    /\ exchanges' = exchanges + 1
    /\ IF child.state = "exited"
       THEN /\ hpc' = "failed"
            /\ readResult' = [err |-> ErrBrokenPipe, withStderr |-> FALSE, line |-> NoLine]
            /\ UNCHANGED child
       ELSE /\ hpc' = "sent"
            /\ child' = [child EXCEPT !.pending = @ + 1]
            /\ readResult' = NoResult
    /\ UNCHANGED <<reader, scanDone, token, waiter, done, timer, waited, baseErr,
                   quiet>>
    /\ UNCHANGED <<valVars, trackerVars, runVars, extractVars, spawnVars, progVars, mainVars, carryVars, pairVars, sessionVars>>

(* ReadLine up to its select: the scanning goroutine is started and the    *)
(* time.After timer is armed.                                              *)
ReadLineStart ==
    /\ hpc = "sent"
    /\ hpc' = "rl_select"
    /\ reader' = "scanning"
    /\ scanDone' = <<>>
    /\ timer' = ReadTimeout
    /\ waited' = 0
    /\ baseErr' = "nil"
    /\ quiet' = (child.out = <<>> /\ child.state = "running")
    /\ UNCHANGED <<child, token, waiter, done, readResult, exchanges>>
    /\ UNCHANGED <<valVars, trackerVars, runVars, extractVars, spawnVars, progVars, mainVars, carryVars, pairVars, sessionVars>>

(* scanDone := make(chan bool, 1).                                         *)
ScanDoneCap == 1

(* A send on an unbuffered scanDone: it waits for the receiver.            *)
SendBlocksUnbuffered(ch, receiving) == ~receiving

(* Whether a send on scanDone has to wait: the buffer is full and no       *)
(* receiver is at the select.                                              *)
SendBlocks(ch, receiving) == Len(ch) >= ScanDoneCap /\ ~receiving

(* bufio.ScanLines: the token is the line without its "\n" and without    *)
(* one "\r" before it.                                                     *)
ScanLines(text) == IF text = "resp\r" THEN "resp" ELSE text

(* The goroutine's scanDone <- h.stdout.Scan(): Scan returns when a line   *)
(* is buffered in the pipe (true, or false with ErrTooLong for one longer  *)
(* than the Scanner's 64 KiB buffer) or when the child's end of the pipe   *)
(* is closed (false); the goroutine ends once its send has gone through.   *)
ReaderScan ==
    /\ reader = "scanning"
    /\ ~SendBlocks(scanDone, hpc = "rl_select")
    /\ \/ /\ child.out # <<>>
          /\ IF Head(child.out).text = "toolong"
             THEN /\ scanDone' = <<"err">>
                  /\ token' = NoLine
             ELSE /\ scanDone' = <<"ok">>
                  /\ token' = [Head(child.out) EXCEPT !.text = ScanLines(@)]
          /\ child' = [child EXCEPT !.out = Tail(@)]
       \/ /\ child.out = <<>>
          /\ child.state = "exited"
          /\ scanDone' = <<"eof">>
          /\ token' = NoLine
          /\ UNCHANGED child
    /\ reader' = "done"
    /\ UNCHANGED <<hpc, waiter, done, timer, waited, baseErr, readResult,
                   quiet, exchanges>>
    /\ UNCHANGED <<valVars, trackerVars, runVars, extractVars, spawnVars, progVars, mainVars, carryVars, pairVars, sessionVars>>

(* select, case ok := <-scanDone.                                          *)
SelectScanDone ==
    /\ hpc = "rl_select"
    /\ scanDone # <<>>
    /\ scanDone' = <<>>
    /\ timer' = 0
    /\ CASE scanDone[1] = "ok" ->
              /\ hpc' = "ready"
              /\ readResult' = [err |-> "nil", withStderr |-> FALSE,
                               line |-> token]
              /\ UNCHANGED baseErr
         [] scanDone[1] = "err" ->
              /\ hpc' = "failed"
              /\ readResult' = [err |-> ErrTooLong, withStderr |-> FALSE,
                               line |-> NoLine]
              /\ UNCHANGED baseErr
         [] OTHER ->
              /\ hpc' = "rl_kill"
              /\ baseErr' = ErrHandlerClosed
              /\ UNCHANGED readResult
    /\ UNCHANGED <<child, reader, token, waiter, done, waited, quiet,
                   exchanges>>
    /\ UNCHANGED <<valVars, trackerVars, runVars, extractVars, spawnVars, progVars, mainVars, carryVars, pairVars, sessionVars>>

(* A select whose timer case reports the end of output instead.           *)
SelectTimeoutAsClosed ==
    /\ hpc = "rl_select"
    /\ timer = 0
    /\ hpc' = "rl_kill"
    /\ baseErr' = ErrHandlerClosed
    /\ UNCHANGED <<child, reader, scanDone, token, waiter, done, timer, waited,
                   readResult, quiet, exchanges>>
    /\ UNCHANGED <<valVars, trackerVars, runVars, extractVars, spawnVars, progVars, mainVars, carryVars, pairVars, sessionVars>>

(* select, case <-time.After(10 * time.Second).                            *)
SelectTimeout ==
    /\ hpc = "rl_select"
    /\ timer = 0
    /\ hpc' = "rl_kill"
    /\ baseErr' = ErrHandlerTimeout
    /\ UNCHANGED <<child, reader, scanDone, token, waiter, done, timer, waited,
                   readResult, quiet, exchanges>>
    /\ UNCHANGED <<valVars, trackerVars, runVars, extractVars, spawnVars, progVars, mainVars, carryVars, pairVars, sessionVars>>

(* A ReadLine that goes on to read stderr without killing the child.       *)
ReadLineKillOmitted ==
    /\ hpc = "rl_kill"
    /\ hpc' = "rl_drain"
    /\ UNCHANGED <<child, reader, scanDone, token, waiter, done, timer, waited,
                   baseErr, readResult, quiet, exchanges>>
    /\ UNCHANGED <<valVars, trackerVars, runVars, extractVars, spawnVars, progVars, mainVars, carryVars, pairVars, sessionVars>>

(* h.cmd.Process.Kill() in ReadLine.                                       *)
ReadLineKill ==
    /\ hpc = "rl_kill"
    /\ hpc' = "rl_drain"
    /\ child' = [child EXCEPT !.killed = TRUE]
    /\ UNCHANGED <<reader, scanDone, token, waiter, done, timer, waited, baseErr,
                   readResult, quiet, exchanges>>
    /\ UNCHANGED <<valVars, trackerVars, runVars, extractVars, spawnVars, progVars, mainVars, carryVars, pairVars, sessionVars>>

(* io.ReadAll(h.stderr) returns at the end of the child's error stream;    *)
(* what it read is attached to baseErr when it is not empty.               *)
ReadLineDrain ==
    /\ hpc = "rl_drain"
    /\ child.state = "exited"
    /\ hpc' = "failed"
    /\ readResult' = [err |-> baseErr, withStderr |-> child.stderr,
                       line |-> NoLine]
    /\ UNCHANGED <<child, reader, scanDone, token, waiter, done, timer, waited,
                   baseErr, quiet, exchanges>>
    /\ UNCHANGED <<valVars, trackerVars, runVars, extractVars, spawnVars, progVars, mainVars, carryVars, pairVars, sessionVars>>

(* Close up to its select: stdin is closed, the goroutine around           *)
(* cmd.Wait() is started and the 5-second timer is armed. Its callers      *)
(* close a handler between exchanges or after a failed SendLine/ReadLine.  *)
CloseStart ==
    /\ hpc \in {"ready", "failed"}
    /\ hpc' = "cl_select"
    /\ child' = [child EXCEPT !.stdinOpen = FALSE]
    /\ waiter' = "waiting"
    /\ done' = <<>>
    /\ timer' = CloseGrace
    /\ waited' = 0
    /\ UNCHANGED <<reader, scanDone, token, baseErr, readResult, quiet, exchanges>>
    /\ UNCHANGED <<valVars, trackerVars, runVars, extractVars, spawnVars, progVars, mainVars, carryVars, pairVars, sessionVars>>

(* The goroutine's done <- h.cmd.Wait(): Wait returns once the child has   *)
(* exited.                                                                 *)
WaiterReturns ==
    /\ waiter = "waiting"
    /\ child.state = "exited"
    /\ waiter' = "done"
    /\ done' = <<"exit">>
    /\ UNCHANGED <<hpc, child, reader, scanDone, token, timer, waited, baseErr,
                   readResult, quiet, exchanges>>
    /\ UNCHANGED <<valVars, trackerVars, runVars, extractVars, spawnVars, progVars, mainVars, carryVars, pairVars, sessionVars>>

(* select, case err := <-done: Close returns.                              *)
SelectDone ==
    /\ hpc = "cl_select"
    /\ done # <<>>
    /\ done' = <<>>
    /\ timer' = 0
    /\ hpc' = "closed"
    /\ UNCHANGED <<child, reader, scanDone, token, waiter, waited, baseErr,
                   readResult, quiet, exchanges>>
    /\ UNCHANGED <<valVars, trackerVars, runVars, extractVars, spawnVars, progVars, mainVars, carryVars, pairVars, sessionVars>>

(* select, case <-time.After(5 * time.Second).                             *)
SelectGrace ==
    /\ hpc = "cl_select"
    /\ timer = 0
    /\ hpc' = "cl_kill"
    /\ UNCHANGED <<child, reader, scanDone, token, waiter, done, timer, waited,
                   baseErr, readResult, quiet, exchanges>>
    /\ UNCHANGED <<valVars, trackerVars, runVars, extractVars, spawnVars, progVars, mainVars, carryVars, pairVars, sessionVars>>

(* h.cmd.Process.Kill() in Close.                                          *)
CloseKill ==
    /\ hpc = "cl_kill"
    /\ hpc' = "cl_wait"
    /\ child' = [child EXCEPT !.killed = TRUE]
    /\ UNCHANGED <<reader, scanDone, token, waiter, done, timer, waited, baseErr,
                   readResult, quiet, exchanges>>
    /\ UNCHANGED <<valVars, trackerVars, runVars, extractVars, spawnVars, progVars, mainVars, carryVars, pairVars, sessionVars>>

(* A second Wait that returns at once whatever the child's state.          *)
CloseWaitReturnsAtOnce ==
    /\ hpc = "cl_wait"
    /\ hpc' = "closed"
    /\ UNCHANGED <<child, reader, scanDone, token, waiter, done, timer, waited,
                   baseErr, readResult, quiet, exchanges>>
    /\ UNCHANGED <<valVars, trackerVars, runVars, extractVars, spawnVars, progVars, mainVars, carryVars, pairVars, sessionVars>>

(* The second h.cmd.Wait(), which runs beside the goroutine's: it either   *)
(* finds the goroutine's Wait finished and returns "Wait was already       *)
(* called", or waits for the child's exit itself. Both need the child to   *)
(* have exited.                                                            *)
CloseWait ==
    /\ hpc = "cl_wait"
    /\ \/ waiter = "done"
       \/ child.state = "exited"
    /\ hpc' = "closed"
    /\ UNCHANGED <<child, reader, scanDone, token, waiter, done, timer, waited,
                   baseErr, readResult, quiet, exchanges>>
    /\ UNCHANGED <<valVars, trackerVars, runVars, extractVars, spawnVars, progVars, mainVars, carryVars, pairVars, sessionVars>>

(* One second passes while the caller is blocked in a select whose timer   *)
(* has not fired.                                                          *)
Tick ==
    /\ hpc \in {"rl_select", "cl_select"}
    /\ timer > 0
    /\ timer' = timer - 1
    /\ waited' = waited + 1
    /\ UNCHANGED <<hpc, child, reader, scanDone, token, waiter, done, baseErr,
                   readResult, quiet, exchanges>>
    /\ UNCHANGED <<valVars, trackerVars, runVars, extractVars, spawnVars, progVars, mainVars, carryVars, pairVars, sessionVars>>

(* What the child writes before the "\n" of a line: a text, the text      *)
(* with a "\r" after it, or more bytes than the Scanner's buffer holds.    *)
ResponseLines == {"resp", "resp\r", "toolong"}

(* The child answers a request it has read from stdin with one line on     *)
(* stdout.                                                                 *)
ChildRespond ==
    /\ child.state = "running"
    /\ ~child.killed
    /\ child.pending > 0
    /\ \E l \in ResponseLines :
          child' = [child EXCEPT
                       !.pending = @ - 1,
                       !.out = Append(@, [n |-> Len(child.wrote) + 1,
                                          text |-> l]),
                       !.wrote = Append(@, l)]
    /\ quiet' = (quiet /\ hpc # "rl_select")
    /\ UNCHANGED <<hpc, reader, scanDone, token, waiter, done, timer, waited,
                   baseErr, readResult, exchanges>>
    /\ UNCHANGED <<valVars, trackerVars, runVars, extractVars, spawnVars, progVars, mainVars, carryVars, pairVars, sessionVars>>

(* The child writes a diagnostic to stderr.                                *)
ChildStderr ==
    /\ child.state = "running"
    /\ ~child.killed
    /\ ~child.stderr
    /\ child' = [child EXCEPT !.stderr = TRUE]
    /\ UNCHANGED <<hpc, reader, scanDone, token, waiter, done, timer, waited,
                   baseErr, readResult, quiet, exchanges>>
    /\ UNCHANGED <<valVars, trackerVars, runVars, extractVars, spawnVars, progVars, mainVars, carryVars, pairVars, sessionVars>>

(* The child exits of its own accord (on the end of stdin, or by           *)
(* crashing): its ends of the pipes close.                                 *)
ChildExit ==
    /\ child.state = "running"
    /\ ~child.killed
    /\ child' = [child EXCEPT !.state = "exited"]
    /\ quiet' = (quiet /\ hpc # "rl_select")
    /\ UNCHANGED <<hpc, reader, scanDone, token, waiter, done, timer, waited,
                   baseErr, readResult, exchanges>>
    /\ UNCHANGED <<valVars, trackerVars, runVars, extractVars, spawnVars, progVars, mainVars, carryVars, pairVars, sessionVars>>

(* A killed child dies: SIGKILL cannot be caught or ignored.               *)
KilledChildDies ==
    /\ child.state = "running"
    /\ child.killed
    /\ child' = [child EXCEPT !.state = "exited"]
    /\ UNCHANGED <<hpc, reader, scanDone, token, waiter, done, timer, waited,
                   baseErr, readResult, quiet, exchanges>>
    /\ UNCHANGED <<valVars, trackerVars, runVars, extractVars, spawnVars, progVars, mainVars, carryVars, pairVars, sessionVars>>

(***************************************************************************)
(* The test runner: main's loop over the suites, RunTestSuite's loop over  *)
(* the tests of one suite, and runTest's SendRequest / ReadResponse on the *)
(* TestRunner's handler. The handler's methods are taken as whole calls    *)
(* here, with the outcomes the handler process controller gives them.      *)
(***************************************************************************)
MaxSuites == 2

MaxSuiteTests == 3

Suites == [Stateful : BOOLEAN, n : 1..MaxSuiteTests]

NoSuite == [Stateful |-> FALSE, n |-> 0]

MsgSendFailed == "Failed to send request"

MsgReadFailed == "Failed to read response"

MsgInvalid == "Invalid response"

MsgSkipped == "Skipped: an earlier test of this stateful suite failed"

MsgRunTimeout == "Total execution timeout exceeded"

(* The Message of a SingleTestResult, by what made the test fail.          *)
Message(cause) ==
    CASE cause \in {"spawn", "write"} -> MsgSendFailed
      [] cause \in {"readline", "unmarshal"} -> MsgReadFailed
      [] cause = "validate" -> MsgInvalid
      [] cause = "skip" -> MsgSkipped
      [] cause = "deadline" -> MsgRunTimeout
      [] OTHER -> ""

(* TestRunner{handler} with the child processes it has spawned: spawned    *)
(* counts them (a process is named by its number), live holds those that   *)
(* have not exited, closed those whose Handler was closed.                 *)
NewTestRunner ==
    [handler |-> Ptr(1), spawned |-> 1, live |-> {1}, closed |-> {}]

NoRunner == [handler |-> Nil, spawned |-> 0, live |-> {}, closed |-> {}]

(* SendRequest's NewHandler when tr.handler is nil.                        *)
SpawnHandler(t) ==
    [t EXCEPT !.handler = Ptr(t.spawned + 1),
              !.spawned = t.spawned + 1,
              !.live = t.live \cup {t.spawned + 1}]

(* A CloseHandler that forgets the handler without closing it.             *)
CloseHandlerLeavesProcess(t) == [t EXCEPT !.handler = Nil]

(* A CloseHandler that leaves the closed handler in tr.handler.            *)
CloseHandlerKeepsHandler(t) ==
    IF t.handler = Nil
    THEN t
    ELSE [t EXCEPT !.live = t.live \ {Deref(t.handler)},
                   !.closed = t.closed \cup {Deref(t.handler)}]

(* CloseHandler: Handler.Close() returns with the child exited, and        *)
(* tr.handler becomes nil.                                                 *)
CloseHandler(t) ==
    IF t.handler = Nil
    THEN t
    ELSE [t EXCEPT !.handler = Nil,
                   !.live = t.live \ {Deref(t.handler)},
                   !.closed = t.closed \cup {Deref(t.handler)}]

(* A suite that never short-circuits.                                      *)
NeverShortCircuit(s, skip, passed) == FALSE

(* Whether the rest of the suite is skipped once a test has been recorded. *)
ShortCircuit(s, skip, passed) == skip \/ (s.Stateful /\ ~passed)

MainIdle ==
    /\ totalPassed = 0
    /\ totalFailed = 0
    /\ totalTests = 0
    /\ tallies = <<>>
    /\ exitCode = "none"
    /\ suiteResults = <<>>
    /\ filesLeft = 0

(* The tallies of the TestResult RunTestSuite returns: TotalTests is the   *)
(* length of the suite, the other two count the results appended.          *)
TestResult(s, rs) ==
    [TotalTests |-> s.n,
     PassedTests |-> Cardinality({j \in DOMAIN rs : rs[j].passed}),
     FailedTests |-> Cardinality({j \in DOMAIN rs : ~rs[j].passed})]

(* An exit status that ignores the failures.                               *)
ExitStatusAlwaysZero(failed) == "exit 0"

(* main's last statement: os.Exit(1) when a test failed, else the return   *)
(* from main.                                                              *)
ExitStatus(failed) == IF failed > 0 THEN "exit 1" ELSE "exit 0"

(* Before the first suite: main's totalFailed is 0 and no stateful suite  *)
(* has used a process.                                                     *)
CarryIdle ==
    /\ statefulPid = 0
    /\ anyFailed = FALSE

(* The process that served the last request among the results, or p when   *)
(* none of them wrote a request.                                           *)
LastServed(rs, p) ==
    LET pids == {rs[j].pid : j \in {i \in DOMAIN rs : rs[i].requests = 1}} IN
    IF pids = {} THEN p ELSE CHOOSE q \in pids : \A r \in pids : r <= q

RunIdle ==
    /\ rpc = "none"
    /\ nSuites = 0
    /\ si = 0
    /\ suite = NoSuite
    /\ ti = 0
    /\ results = <<>>
    /\ skipTests = FALSE
    /\ ctxDone = FALSE
    /\ tr = NoRunner
    /\ requests = 0
    /\ expiredAtCheck = FALSE
    /\ lastEvent = "none"

(* A loop that moves past a skipped test without recording it.             *)
AppendResultDropsSkipped(passed, cause, pid) ==
    /\ results' = IF cause = "skip"
                  THEN results
                  ELSE Append(results,
                         [TestID |-> ti, passed |-> passed, cause |-> cause,
                          message |-> Message(cause),
                          expired |-> expiredAtCheck', late |-> ctxDone,
                          requests |-> requests', pid |-> pid])
    /\ skipTests' = ShortCircuit(suite, skipTests, passed)
    /\ ti' = ti + 1
    /\ rpc' = "check"

(* RunTestSuite's bookkeeping for the result of the test at ti; expired    *)
(* and late tell whether the run's deadline had passed when the test was   *)
(* begun and when it was recorded.                                         *)
AppendResult(passed, cause, pid) ==
    /\ results' = Append(results,
                         [TestID |-> ti, passed |-> passed, cause |-> cause,
                          message |-> Message(cause),
                          expired |-> expiredAtCheck', late |-> ctxDone,
                          requests |-> requests', pid |-> pid])
    /\ skipTests' = ShortCircuit(suite, skipTests, passed)
    /\ ti' = ti + 1
    /\ rpc' = "check"

(* main: the next test file is loaded and RunTestSuite begins.             *)
LoadSuite ==
    /\ rpc = "load"
    /\ si < nSuites
    /\ \E s \in Suites : suite' = s
    /\ si' = si + 1
    /\ ti' = 1
    /\ results' = <<>>
    /\ skipTests' = FALSE
    /\ rpc' = "check"
    /\ lastEvent' = "none"
    /\ UNCHANGED <<nSuites, ctxDone, tr, requests, expiredAtCheck>>
    /\ UNCHANGED <<valVars, trackerVars, handlerVars, extractVars, spawnVars, progVars, mainVars, carryVars, pairVars, sessionVars>>

(* main: the test file does not load; the loop continues with the next.    *)
LoadSuiteFails ==
    /\ rpc = "load"
    /\ si < nSuites
    /\ si' = si + 1
    /\ lastEvent' = "none"
    /\ UNCHANGED <<rpc, nSuites, suite, ti, results, skipTests, ctxDone, tr,
                   requests, expiredAtCheck>>
    /\ UNCHANGED <<valVars, trackerVars, handlerVars, extractVars, spawnVars, progVars, mainVars, carryVars, pairVars, sessionVars>>

(* A loop that never consults the run's deadline.                          *)
BeginTestIgnoresDeadline ==
    /\ rpc = "check"
    /\ ti <= suite.n
    /\ expiredAtCheck' = ctxDone
    /\ requests' = 0
    /\ lastEvent' = "none"
    /\ IF skipTests
       THEN AppendResult(FALSE, "skip", 0)
       ELSE /\ rpc' = "send"
            /\ UNCHANGED <<results, skipTests, ti>>
    /\ UNCHANGED <<nSuites, si, suite, ctxDone, tr>>
    /\ UNCHANGED <<valVars, trackerVars, handlerVars, extractVars, spawnVars, progVars, mainVars, carryVars, pairVars, sessionVars>>

(* RunTestSuite, top of the loop for the test at ti: a test of a           *)
(* short-circuited suite is recorded as skipped, a test that finds the     *)
(* run's deadline expired is recorded as timed out, any other is run.      *)
BeginTest ==
    /\ rpc = "check"
    /\ ti <= suite.n
    /\ expiredAtCheck' = ctxDone
    /\ requests' = 0
    /\ lastEvent' = "none"
    /\ IF skipTests
       THEN AppendResult(FALSE, "skip", 0)
       ELSE IF ctxDone
            THEN AppendResult(FALSE, "deadline", 0)
            ELSE /\ rpc' = "send"
                 /\ UNCHANGED <<results, skipTests, ti>>
    /\ UNCHANGED <<nSuites, si, suite, ctxDone, tr>>
    /\ UNCHANGED <<valVars, trackerVars, handlerVars, extractVars, spawnVars, progVars, mainVars, carryVars, pairVars, sessionVars>>

(* runTest's tr.SendRequest(req): a handler is spawned when none is held,  *)
(* then the request is written. A failed spawn or write fails the test;    *)
(* a failed write also closes the handler.                                 *)
SendRequest ==
    /\ rpc = "send"
    /\ UNCHANGED expiredAtCheck
    /\ \/ /\ tr.handler = Nil
          /\ requests' = requests
          /\ tr' = tr
          /\ lastEvent' = "spawnfail"
          /\ AppendResult(FALSE, "spawn", 0)
       \/ \E alive \in BOOLEAN :
             LET t == IF tr.handler = Nil
                      THEN IF alive
                           THEN SpawnHandler(tr)
                           ELSE [SpawnHandler(tr) EXCEPT !.live = tr.live]
                      ELSE tr
                 pid == Deref(t.handler)
             IN  /\ tr.handler # Nil => alive = (pid \in tr.live)
                 /\ IF pid \in t.live
                    THEN /\ requests' = requests + 1
                         /\ tr' = t
                         /\ lastEvent' = "sent"
                         /\ rpc' = "read"
                         /\ UNCHANGED <<results, skipTests, ti>>
                    ELSE /\ requests' = requests
                         /\ tr' = CloseHandler(t)
                         /\ lastEvent' = "sendfail"
                         /\ AppendResult(FALSE, "write", pid)
    /\ UNCHANGED <<nSuites, si, suite, ctxDone>>
    /\ UNCHANGED <<valVars, trackerVars, handlerVars, extractVars, spawnVars, progVars, mainVars, carryVars, pairVars, sessionVars>>

ReadLineErrors == {ErrHandlerTimeout, ErrHandlerClosed, ErrTooLong}

(* A ReadResponse that the run's deadline cuts short.                      *)
ReadResponsePreempted ==
    /\ rpc = "read"
    /\ UNCHANGED <<expiredAtCheck, requests>>
    /\ LET pid == Deref(tr.handler) IN
       IF ctxDone
       THEN /\ tr' = CloseHandler(tr)
            /\ lastEvent' = "readfail"
            /\ AppendResult(FALSE, "deadline", pid)
       ELSE \/ \E err \in ReadLineErrors :
                  /\ err = ErrHandlerTimeout => pid \in tr.live
                  /\ tr' = CloseHandler(tr)
                  /\ lastEvent' = "readfail"
                  /\ AppendResult(FALSE, "readline", pid)
            \/ \E outcome \in {"unmarshal", "validate", "pass"} :
                  /\ tr' = tr
                  /\ lastEvent' = "read"
                  /\ AppendResult(outcome = "pass", outcome, pid)
    /\ UNCHANGED <<nSuites, si, suite, ctxDone>>
    /\ UNCHANGED <<valVars, trackerVars, handlerVars, extractVars, spawnVars, progVars, mainVars, carryVars, pairVars, sessionVars>>

(* runTest from tr.ReadResponse() on: ReadLine returns a line or fails;    *)
(* a failure closes the handler; a line is unmarshalled and validated.     *)
ReadResponse ==
    /\ rpc = "read"
    /\ UNCHANGED <<expiredAtCheck, requests>>
    /\ LET pid == Deref(tr.handler) IN
       \/ \E err \in ReadLineErrors :
             /\ err = ErrHandlerTimeout => pid \in tr.live
             /\ tr' = CloseHandler(tr)
             /\ lastEvent' = "readfail"
             /\ AppendResult(FALSE, "readline", pid)
       \/ \E outcome \in {"unmarshal", "validate", "pass"} :
             /\ tr' = tr
             /\ lastEvent' = "read"
             /\ AppendResult(outcome = "pass", outcome, pid)
    /\ UNCHANGED <<nSuites, si, suite, ctxDone>>
    /\ UNCHANGED <<valVars, trackerVars, handlerVars, extractVars, spawnVars, progVars, mainVars, carryVars, pairVars, sessionVars>>

(* A main that keeps the handler after every suite.                        *)
EndSuiteKeepsHandler ==
    /\ rpc = "check"
    /\ ti > suite.n
    /\ anyFailed' = (anyFailed \/ TestResult(suite, results).FailedTests > 0)
    /\ statefulPid' = IF suite.Stateful
                      THEN LastServed(results, statefulPid)
                      ELSE statefulPid
    /\ tr' = tr
    /\ rpc' = "load"
    /\ lastEvent' = "none"
    /\ UNCHANGED <<nSuites, si, suite, ti, results, skipTests, ctxDone,
                   requests, expiredAtCheck>>
    /\ UNCHANGED <<valVars, trackerVars, handlerVars, extractVars, spawnVars, progVars, mainVars, pairVars, sessionVars>>

(* RunTestSuite returns; main adds the suite's tallies to its totals, of   *)
(* which the runner keeps whether totalFailed is above 0, and closes the   *)
(* handler after a stateful suite.                                         *)
EndSuite ==
    /\ rpc = "check"
    /\ ti > suite.n
    /\ anyFailed' = (anyFailed \/ TestResult(suite, results).FailedTests > 0)
    /\ statefulPid' = IF suite.Stateful
                      THEN LastServed(results, statefulPid)
                      ELSE statefulPid
    /\ tr' = IF suite.Stateful THEN CloseHandler(tr) ELSE tr
    /\ rpc' = "load"
    /\ lastEvent' = "none"
    /\ UNCHANGED <<nSuites, si, suite, ti, results, skipTests, ctxDone,
                   requests, expiredAtCheck>>
    /\ UNCHANGED <<valVars, trackerVars, handlerVars, extractVars, spawnVars, progVars, mainVars, pairVars, sessionVars>>

(* main after the last test file: with a failed test os.Exit(1) ends the   *)
(* process at once, otherwise main returns and the deferred CloseHandler   *)
(* runs.                                                                   *)
Finish ==
    /\ rpc = "load"
    /\ si = nSuites
    /\ tr' = IF anyFailed THEN tr ELSE CloseHandler(tr)
    /\ rpc' = "done"
    /\ lastEvent' = "none"
    /\ UNCHANGED <<nSuites, si, suite, ti, results, skipTests, ctxDone,
                   requests, expiredAtCheck>>
    /\ UNCHANGED <<valVars, trackerVars, handlerVars, extractVars, spawnVars, progVars, mainVars, carryVars, pairVars, sessionVars>>

(* The handler process exits of its own accord.                            *)
HandlerCrash ==
    /\ rpc \notin {"none", "done"}
    /\ tr.handler # Nil
    /\ Deref(tr.handler) \in tr.live
    /\ tr' = [tr EXCEPT !.live = tr.live \ {Deref(tr.handler)}]
    /\ UNCHANGED <<rpc, nSuites, si, suite, ti, results, skipTests, ctxDone,
                   requests, expiredAtCheck, lastEvent>>
    /\ UNCHANGED <<valVars, trackerVars, handlerVars, extractVars, spawnVars, progVars, mainVars, carryVars, pairVars, sessionVars>>

(* The context's deadline passes.                                          *)
DeadlineExpires ==
    /\ rpc \notin {"none", "done"}
    /\ ~ctxDone
    /\ ctxDone' = TRUE
    /\ UNCHANGED <<rpc, nSuites, si, suite, ti, results, skipTests, tr,
                   requests, expiredAtCheck, lastEvent>>
    /\ UNCHANGED <<valVars, trackerVars, handlerVars, extractVars, spawnVars, progVars, mainVars, carryVars, pairVars, sessionVars>>

(***************************************************************************)
(* Requests and responses on the pipes: runTest's SendRequest and          *)
(* ReadResponse against handler processes that answer each request they    *)
(* read with at most one line, in the order of the requests. A line on a   *)
(* process's stdout is kept with the process that wrote it and the request *)
(* it answers.                                                             *)
(***************************************************************************)
MaxPairTests == 3

(* What json.Unmarshal and the Scanner make of a line: a Response, no      *)
(* JSON, or more bytes than the Scanner's buffer holds.                    *)
LineKinds == {"json", "garbage", "toolong"}

(* A process NewHandler has started: running, nothing read or written.     *)
NewProcess == [alive |-> TRUE, inbox |-> <<>>, out |-> <<>>]

PairIdle ==
    /\ pairPc = "none"
    /\ pairTest = 0
    /\ pairHandler = Nil
    /\ pairProcs = <<>>
    /\ pairLog = <<>>

(* A failure that leaves the process running and the handler in place.     *)
DiscardKeepsProcess(h, ps) == [handler |-> h, procs |-> ps]

(* The end of a handler after a failed SendLine or ReadLine: the process   *)
(* is killed by ReadLine or by Close, Close returns once it has exited,    *)
(* and CloseHandler sets tr.handler to nil.                                *)
Discard(h, ps) ==
    [handler |-> Nil, procs |-> [ps EXCEPT ![Deref(h)].alive = FALSE]]

(* runTest returns the result of the test at pairTest; line is the line    *)
(* ReadLine returned for it, if any.                                       *)
PairRecord(outcome, pid, line) ==
    /\ pairLog' = Append(pairLog, [test |-> pairTest, pid |-> pid,
                                   line |-> line, outcome |-> outcome])
    /\ pairTest' = pairTest + 1
    /\ pairPc' = "send"

(* tr.SendRequest(req): NewHandler when no handler is held, then SendLine. *)
PairSendRequest ==
    /\ pairPc = "send"
    /\ pairTest <= MaxPairTests
    /\ \/ /\ pairHandler = Nil
          /\ UNCHANGED <<pairHandler, pairProcs>>
          /\ PairRecord("spawn", 0, Nil)
       \/ LET ps == IF pairHandler = Nil
                    THEN Append(pairProcs, NewProcess)
                    ELSE pairProcs
              h == IF pairHandler = Nil THEN Ptr(Len(ps)) ELSE pairHandler
              pid == Deref(h)
          IN IF ps[pid].alive
             THEN /\ pairProcs' = [ps EXCEPT ![pid].inbox = Append(@, pairTest)]
                  /\ pairHandler' = h
                  /\ pairPc' = "read"
                  /\ UNCHANGED <<pairTest, pairLog>>
             ELSE /\ pairHandler' = Discard(h, ps).handler
                  /\ pairProcs' = Discard(h, ps).procs
                  /\ PairRecord("write", pid, Nil)
    /\ UNCHANGED <<valVars, trackerVars, handlerVars, runVars, extractVars,
                   spawnVars, progVars, mainVars, carryVars, sessionVars>>

(* tr.ReadResponse() and the validation: ReadLine returns the next line of *)
(* the held handler's stdout, or fails on a line too long for the Scanner, *)
(* on the end of the stream, or when its timer fires; a failure ends the   *)
(* handler; a line is unmarshalled and, when that succeeds, validated.     *)
PairReadResponse ==
    /\ pairPc = "read"
    /\ LET pid == Deref(pairHandler)
           p == pairProcs[pid]
           rest == [pairProcs EXCEPT ![pid].out = Tail(@)]
       IN \/ /\ p.out # <<>>
             /\ CASE Head(p.out).kind = "toolong" ->
                       /\ pairHandler' = Discard(pairHandler, rest).handler
                       /\ pairProcs' = Discard(pairHandler, rest).procs
                       /\ PairRecord("readline", pid, Nil)
                  [] Head(p.out).kind = "garbage" ->
                       /\ pairProcs' = rest
                       /\ UNCHANGED pairHandler
                       /\ PairRecord("unmarshal", pid, Ptr(Head(p.out)))
                  [] OTHER ->
                       /\ pairProcs' = rest
                       /\ UNCHANGED pairHandler
                       /\ \E outcome \in {"validate", "pass"} :
                             PairRecord(outcome, pid, Ptr(Head(p.out)))
          \/ /\ p.out = <<>>
             /\ ~p.alive
             /\ pairHandler' = Discard(pairHandler, pairProcs).handler
             /\ pairProcs' = Discard(pairHandler, pairProcs).procs
             /\ PairRecord("readline", pid, Nil)
          \/ /\ p.alive
             /\ pairHandler' = Discard(pairHandler, pairProcs).handler
             /\ pairProcs' = Discard(pairHandler, pairProcs).procs
             /\ PairRecord("readline", pid, Nil)
    /\ UNCHANGED <<valVars, trackerVars, handlerVars, runVars, extractVars,
                   spawnVars, progVars, mainVars, carryVars, sessionVars>>

(* A running handler answers the oldest request it has not answered with   *)
(* one line on its stdout.                                                 *)
HandlerAnswers ==
    /\ \E pid \in DOMAIN pairProcs : \E kind \in LineKinds :
          /\ pairProcs[pid].alive
          /\ pairProcs[pid].inbox # <<>>
          /\ pairProcs' = [pairProcs EXCEPT
                 ![pid].inbox = Tail(@),
                 ![pid].out = Append(@, [pid |-> pid,
                                         req |-> Head(pairProcs[pid].inbox),
                                         kind |-> kind])]
    /\ UNCHANGED <<pairPc, pairTest, pairHandler, pairLog>>
    /\ UNCHANGED <<valVars, trackerVars, handlerVars, runVars, extractVars,
                   spawnVars, progVars, mainVars, carryVars, sessionVars>>

(* A running handler exits; what it wrote stays in the pipe.               *)
HandlerExits ==
    /\ \E pid \in DOMAIN pairProcs :
          /\ pairProcs[pid].alive
          /\ pairProcs' = [pairProcs EXCEPT ![pid].alive = FALSE]
    /\ UNCHANGED <<pairPc, pairTest, pairHandler, pairLog>>
    /\ UNCHANGED <<valVars, trackerVars, handlerVars, runVars, extractVars,
                   spawnVars, progVars, mainVars, carryVars, sessionVars>>

(***************************************************************************)
(* main's loop over the test files with RunTestSuite taken as one call:    *)
(* the tallies of each suite, the totals and the exit status.              *)
(***************************************************************************)
(* What RunTestSuite records for a test: passed, or failed by the exchange *)
(* with the handler, by the suite's short-circuit, or by the deadline.     *)
ResultKinds ==
    {[passed |-> TRUE, cause |-> "pass"],
     [passed |-> FALSE, cause |-> "validate"],
     [passed |-> FALSE, cause |-> "skip"],
     [passed |-> FALSE, cause |-> "deadline"]}

(* The TestResults RunTestSuite can return for a suite: a test is skipped  *)
(* exactly when the suite is stateful and an earlier test failed, and once *)
(* the deadline has stopped a test it stops the ones that follow.          *)
SuiteResults(s) ==
    {rs \in [1..s.n -> ResultKinds] :
        /\ \A j \in 1..s.n :
              rs[j].cause = "skip" <=>
                  (s.Stateful /\ \E i \in 1..(j - 1) : ~rs[i].passed)
        /\ \A j \in 1..(s.n - 1) :
              rs[j].cause = "deadline" => rs[j + 1].cause \in {"deadline", "skip"}}

(* One turn of main's loop: the file loads, RunTestSuite returns its       *)
(* TestResult, printResults prints the tallies and the totals grow.        *)
MainRunSuite ==
    /\ exitCode = "running"
    /\ filesLeft > 0
    /\ filesLeft' = filesLeft - 1
    /\ \E s \in Suites : \E rs \in SuiteResults(s) :
          LET result == TestResult(s, rs) IN
          /\ suiteResults' = rs
          /\ tallies' = Append(tallies, result)
          /\ totalPassed' = totalPassed + result.PassedTests
          /\ totalFailed' = totalFailed + result.FailedTests
          /\ totalTests' = totalTests + result.TotalTests
    /\ UNCHANGED exitCode
    /\ UNCHANGED <<valVars, trackerVars, handlerVars, runVars, extractVars,
                   spawnVars, progVars, carryVars, pairVars, sessionVars>>

(* One turn of main's loop for a file that does not load: an error line,   *)
(* and on to the next file.                                                *)
MainLoadFails ==
    /\ exitCode = "running"
    /\ filesLeft > 0
    /\ filesLeft' = filesLeft - 1
    /\ UNCHANGED <<totalPassed, totalFailed, totalTests, tallies, exitCode,
                   suiteResults>>
    /\ UNCHANGED <<valVars, trackerVars, handlerVars, runVars, extractVars,
                   spawnVars, progVars, carryVars, pairVars, sessionVars>>

(* After the loop: the totals are printed and the process ends.            *)
MainExit ==
    /\ exitCode = "running"
    /\ filesLeft = 0
    /\ exitCode' = ExitStatus(totalFailed)
    /\ UNCHANGED <<totalPassed, totalFailed, totalTests, tallies,
                   suiteResults, filesLeft>>
    /\ UNCHANGED <<valVars, trackerVars, handlerVars, runVars, extractVars,
                   spawnVars, progVars, carryVars, pairVars, sessionVars>>

(***************************************************************************)
(* The inputs of the validator: what json.Unmarshal can produce for a test *)
(* case and for a response line.                                           *)
(***************************************************************************)
RawResults ==
    { <<>>, <<"null">>, <<"true">>, <<"false">>, <<"1">>, <<"1.0">>,
      <<"9007199254740992">>, <<"9007199254740993">>,
      <<"\"$a\"">>,
      <<"{", "}">>,
      <<"{", "\"a\"", ":", "1", "}">>,
      <<"{", "\"a\"", ":", "1", ",", "\"b\"", ":", "true", "}">>,
      <<"{", WS, "\"b\"", ":", WS, "true", ",", "\"a\"", ":", "1.0", "}">> }

ErrorTypes == {"type", "different_type"}

ErrorMembers == {"MEMBER", "DIFFERENT_MEMBER"}

ErrorCodes == [Type : ErrorTypes, Member : ErrorMembers]

Errors ==
    {Nil, Ptr([Code |-> Nil])} \cup {Ptr([Code |-> Ptr(c)]) : c \in ErrorCodes}

IDs == {"1", "99"}

ValTestCases == [ID : IDs, Expected : [Result : RawResults, Error : Errors]]

ValResponses == [ID : IDs, Result : RawResults, Error : Errors]

NoTest == [ID |-> "", Expected |-> [Result |-> <<>>, Error |-> Nil]]

NoResp == [ID |-> "", Result |-> <<>>, Error |-> Nil]

ValIdle ==
    /\ vTest = NoTest
    /\ vResp = NoResp
    /\ vErr = "none"

(***************************************************************************)
(* The inputs of reference extraction: params objects with up to two       *)
(* members, each value a scalar, a ref object, or an object one or two     *)
(* levels deep that holds a reference further down.                        *)
(***************************************************************************)
Absent == <<>>

ExtractValues ==
    { <<"\"$a\"">>, <<"\"$b\"">>, <<"\"$\"">>, <<"\"deadbeef\"">>, <<"1">>,
      <<"{", "\"ref\"", ":", "\"$a\"", "}">>,
      <<"{", "\"ref\"", ":", "\"$b\"", "}">>,
      <<"{", "\"a\"", ":", "\"$a\"", "}">>,
      <<"{", "\"a\"", ":", "{", "\"ref\"", ":", "\"$a\"", "}", "}">> }

ExtractInputs == [a : ExtractValues \cup {Absent}, b : ExtractValues \cup {Absent}]

NoParams == [a |-> <<"none">>, b |-> <<"none">>]

(* The JSON text of the params object.                                     *)
ParamsOf(in) ==
    <<"{">>
    \o (IF in.a = Absent THEN <<>> ELSE <<"\"a\"", ":">> \o in.a)
    \o (IF in.a # Absent /\ in.b # Absent THEN <<",">> ELSE <<>>)
    \o (IF in.b = Absent THEN <<>> ELSE <<"\"b\"", ":">> \o in.b)
    \o <<"}">>

ExtractIdle ==
    /\ xParams = NoParams
    /\ xRefs = Nil

(* One call of extractRefsFromParams, as BuildDependenciesForTest makes it *)
(* for the params of a test.                                               *)
Extract ==
    /\ xRefs = Nil
    /\ xRefs' = Ptr(extractRefsFromParams(ParamsOf(xParams)))
    /\ UNCHANGED xParams
    /\ UNCHANGED <<valVars, trackerVars, handlerVars, runVars, spawnVars, progVars, mainVars, carryVars, pairVars, sessionVars>>

(***************************************************************************)
(* NewHandler (runner/handler.go), step by step: three pipes, then the     *)
(* start of the executable. A pipe takes two descriptors of the harness    *)
(* process and cannot be made when fewer are free.                         *)
(***************************************************************************)
MaxFree == 6

Streams == {"stdin", "stdout", "stderr"}

(* The two ends of a stream's pipe: the child's and the parent's.          *)
PipeEnds(stream) == {<<stream, "child">>, <<stream, "parent">>}

HandlerConfigs == [Path : {"handler", "missing"}, Env : {Nil, Ptr("K=V")}]

NoConfig == [Path |-> "", Env |-> Nil]

SpawnIdle ==
    /\ spc = "none"
    /\ cfg = NoConfig
    /\ freeFds = 0
    /\ pipes = {}
    /\ started = FALSE
    /\ spawnErr = "none"

(* cmd.StdinPipe(): os.Pipe() and, on its error, NewHandler's return of    *)
(* the wrapped error.                                                      *)
StdinPipe ==
    /\ spc = "stdin"
    /\ IF freeFds < 2
       THEN /\ spc' = "failed"
            /\ spawnErr' = "failed to create stdin pipe"
            /\ UNCHANGED <<freeFds, pipes>>
       ELSE /\ spc' = "stdout"
            /\ pipes' = pipes \cup PipeEnds("stdin")
            /\ freeFds' = freeFds - 2
            /\ UNCHANGED spawnErr
    /\ UNCHANGED <<cfg, started>>
    /\ UNCHANGED <<valVars, trackerVars, handlerVars, runVars, extractVars, progVars, mainVars, carryVars, pairVars, sessionVars>>

(* cmd.StdoutPipe(), the same way.                                         *)
StdoutPipe ==
    /\ spc = "stdout"
    /\ IF freeFds < 2
       THEN /\ spc' = "failed"
            /\ spawnErr' = "failed to create stdout pipe"
            /\ UNCHANGED <<freeFds, pipes>>
       ELSE /\ spc' = "stderr"
            /\ pipes' = pipes \cup PipeEnds("stdout")
            /\ freeFds' = freeFds - 2
            /\ UNCHANGED spawnErr
    /\ UNCHANGED <<cfg, started>>
    /\ UNCHANGED <<valVars, trackerVars, handlerVars, runVars, extractVars, progVars, mainVars, carryVars, pairVars, sessionVars>>

(* cmd.StderrPipe(), the same way.                                         *)
StderrPipe ==
    /\ spc = "stderr"
    /\ IF freeFds < 2
       THEN /\ spc' = "failed"
            /\ spawnErr' = "failed to create stderr pipe"
            /\ UNCHANGED <<freeFds, pipes>>
       ELSE /\ spc' = "start"
            /\ pipes' = pipes \cup PipeEnds("stderr")
            /\ freeFds' = freeFds - 2
            /\ UNCHANGED spawnErr
    /\ UNCHANGED <<cfg, started>>
    /\ UNCHANGED <<valVars, trackerVars, handlerVars, runVars, extractVars, progVars, mainVars, carryVars, pairVars, sessionVars>>

(* cmd.Start(): on failure it closes every pipe end and no child exists;   *)
(* on success the child holds its ends and the parent has closed them.     *)
Start ==
    /\ spc = "start"
    /\ \E ok \in {b \in BOOLEAN : b => cfg.Path = "handler"} :
          IF ok
          THEN /\ spc' = "ok"
               /\ started' = TRUE
               /\ pipes' = {e \in pipes : e[2] = "parent"}
               /\ freeFds' = freeFds + 3
               /\ spawnErr' = "nil"
          ELSE /\ spc' = "failed"
               /\ pipes' = {}
               /\ freeFds' = freeFds + Cardinality(pipes)
               /\ spawnErr' = "failed to start handler"
               /\ UNCHANGED started
    /\ UNCHANGED cfg
    /\ UNCHANGED <<valVars, trackerVars, handlerVars, runVars, extractVars, progVars, mainVars, carryVars, pairVars, sessionVars>>

(* After a failed NewHandler the exec.Cmd is garbage: the collector may,   *)
(* at some later time or never, run the finalizer of a pipe end's os.File, *)
(* which closes it.                                                        *)
Finalize ==
    /\ spc = "failed"
    /\ \E e \in pipes :
          /\ pipes' = pipes \ {e}
          /\ freeFds' = freeFds + 1
    /\ UNCHANGED <<spc, cfg, started, spawnErr>>
    /\ UNCHANGED <<valVars, trackerVars, handlerVars, runVars, extractVars, progVars, mainVars, carryVars, pairVars, sessionVars>>

(***************************************************************************)
(* The two handler programs of the repository: go-handler                  *)
(* (go-handler/main.go, handler.go) and the mock handler                   *)
(* (cmd/mock-handler/main.go). Each reads its standard input line by line  *)
(* with a bufio.Scanner and answers on standard output.                    *)
(***************************************************************************)
MaxLines == 2

Programs == {"go-handler", "mock-handler"}

RequestIDs == {"t1", "t2", "t9"}

RequestMethods == {"script_pubkey.verify", "chainstate.setup", "nosuch"}

(* A line that does not decode into a Request, and one longer than the     *)
(* Scanner's buffer.                                                       *)
Garbage == [form |-> "garbage", ID |-> "", Method |-> ""]

TooLong == [form |-> "toolong", ID |-> "", Method |-> ""]

RequestLines ==
    {Garbage, TooLong}
    \cup [form : {"json"}, ID : RequestIDs, Method : RequestMethods]

RECURSIVE SeqsUpTo(_, _)
SeqsUpTo(S, n) ==
    IF n = 0 THEN {<<>>}
    ELSE SeqsUpTo(S, n - 1)
         \cup {Append(s, x) : s \in {t \in SeqsUpTo(S, n - 1) : Len(t) = n - 1},
                              x \in S}

(* The embedded test files: two files of one test case each, with the      *)
(* unique ids the handler specification requires.                          *)
MockExpectations ==
    [Success : BOOLEAN,
     Error : {Nil, Ptr([Code |-> [Type |-> "btck_ScriptVerifyStatus",
                                  Member |-> "ERROR_INVALID_FLAGS"]])}]

EmbeddedSuites ==
    {<< <<[ID |-> "t1", Method |-> "script_pubkey.verify", Expected |-> e1]>>,
        <<[ID |-> "t2", Method |-> "chainstate.setup", Expected |-> e2]>> >> :
        e1 \in MockExpectations, e2 \in MockExpectations}

ProgIdle ==
    /\ prog = "none"
    /\ embedded = <<>>
    /\ stdinLines = <<>>
    /\ nRead = 0
    /\ stdoutLines = <<>>
    /\ stderrLines = 0
    /\ progExit = "none"

(* buildTestIndex: test id -> file; a later file overwrites an earlier one. *)
TestIDsOf(file) == {file[k].ID : k \in 1..Len(file)}

buildTestIndex(suites) ==
    [id \in UNION {TestIDsOf(suites[f]) : f \in 1..Len(suites)} |->
        CHOOSE f \in 1..Len(suites) :
            /\ id \in TestIDsOf(suites[f])
            /\ \A g \in 1..Len(suites) : id \in TestIDsOf(suites[g]) => g <= f]

HandlerError(id, member) ==
    [ID |-> id, Success |-> FALSE,
     Error |-> Ptr([Code |-> [Type |-> "Handler", Member |-> member]])]

(* A mock handler that answers every known test with success.              *)
mockHandleRequestAlwaysSucceeds(line, suites) ==
    LET testIndex == buildTestIndex(suites) IN
    IF line.form # "json" THEN Nil
    ELSE IF line.ID \notin DOMAIN testIndex
    THEN Ptr(HandlerError(line.ID, "UNKNOWN_TEST"))
    ELSE Ptr([ID |-> line.ID, Success |-> TRUE, Error |-> Nil])

(* The mock handler's handleRequest: Nil when it returns an error without  *)
(* writing, else the response it writes.                                   *)
mockHandleRequest(line, suites) ==
    LET testIndex == buildTestIndex(suites) IN
    IF line.form # "json" THEN Nil
    ELSE IF line.ID \notin DOMAIN testIndex
    THEN Ptr(HandlerError(line.ID, "UNKNOWN_TEST"))
    ELSE LET file == suites[testIndex[line.ID]]
             k == CHOOSE k \in 1..Len(file) :
                      /\ file[k].ID = line.ID
                      /\ \A j \in 1..(k - 1) : file[j].ID # line.ID
             testCase == file[k]
         IN IF line.Method # testCase.Method
            THEN Ptr(HandlerError(line.ID, "METHOD_MISMATCH"))
            ELSE Ptr([ID |-> line.ID,
                      Success |-> testCase.Expected.Success,
                      Error |-> testCase.Expected.Error])

(* One turn of the mock handler's loop: Scan, handleRequest, and a line on *)
(* standard error when handleRequest returned an error. A line the         *)
(* Scanner cannot hold ends the loop; the program exits with status 1.     *)
MockHandlerLine ==
    /\ prog = "mock-handler"
    /\ progExit = "running"
    /\ nRead < Len(stdinLines)
    /\ LET line == stdinLines[nRead + 1]
           resp == mockHandleRequest(line, embedded)
       IN IF line.form = "toolong"
          THEN /\ progExit' = "exit 1"
               /\ stderrLines' = stderrLines + 1
               /\ UNCHANGED <<nRead, stdoutLines>>
          ELSE /\ nRead' = nRead + 1
               /\ IF resp = Nil
                  THEN /\ stderrLines' = stderrLines + 1
                       /\ UNCHANGED stdoutLines
                  ELSE /\ stdoutLines' =
                              Append(stdoutLines,
                                     [req |-> nRead + 1, resp |-> Deref(resp)])
                       /\ UNCHANGED stderrLines
               /\ UNCHANGED progExit
    /\ UNCHANGED <<prog, embedded, stdinLines>>
    /\ UNCHANGED <<valVars, trackerVars, handlerVars, runVars, extractVars,
                   spawnVars, mainVars, carryVars, pairVars, sessionVars>>

ErrInvalidRequest == "INVALID_REQUEST"

ErrMethodNotFound == "METHOD_NOT_FOUND"

ErrInternalError == "INTERNAL_ERROR"

ErrInvalidParams == "INVALID_PARAMS"

ErrKernel == "KERNEL_ERROR"

NewErrorResponse(id, code, message) ==
    [ID |-> id, Result |-> Nil,
     Error |-> Ptr([Code |-> code, Message |-> message])]

NewSuccessResponse(id, result) ==
    [ID |-> id, Result |-> result, Error |-> Nil]

GoMethods ==
    {"script_pubkey.verify", "chainstate.setup", "chainstate.read_block",
     "chainstate.teardown"}

(* What a method handler of go-handler does with a request: it returns a   *)
(* success response, returns an error response, or panics.                 *)
MethodOutcomes == {"success", "error", "panic"}

(* go-handler's handleRequest: the method handler's response, the          *)
(* recovered panic's, or METHOD_NOT_FOUND.                                 *)
goHandleRequest(req, what) ==
    IF req.Method \notin GoMethods
    THEN NewErrorResponse(req.ID, ErrMethodNotFound, "Unknown method")
    ELSE CASE what = "success" -> NewSuccessResponse(req.ID, Ptr("true"))
           [] what = "error" -> NewErrorResponse(req.ID, ErrKernel, "")
           [] OTHER -> NewErrorResponse(req.ID, ErrInternalError,
                                        "Internal error (panic)")

(* One turn of go-handler's loop: Scan, json.Unmarshal, handleRequest,     *)
(* sendResponse.                                                           *)
GoHandlerLine ==
    /\ prog = "go-handler"
    /\ progExit = "running"
    /\ nRead < Len(stdinLines)
    /\ LET line == stdinLines[nRead + 1] IN
       IF line.form = "toolong"
       THEN /\ progExit' = "exit 1"
            /\ stderrLines' = stderrLines + 1
            /\ UNCHANGED <<nRead, stdoutLines>>
       ELSE /\ nRead' = nRead + 1
            /\ \E what \in MethodOutcomes :
                  stdoutLines' =
                      Append(stdoutLines,
                             [req |-> nRead + 1,
                              resp |-> IF line.form = "garbage"
                                       THEN NewErrorResponse("", ErrInvalidRequest,
                                                             "Failed to parse JSON")
                                       ELSE goHandleRequest(line, what)])
            /\ UNCHANGED <<stderrLines, progExit>>
    /\ UNCHANGED <<prog, embedded, stdinLines>>
    /\ UNCHANGED <<valVars, trackerVars, handlerVars, runVars, extractVars,
                   spawnVars, mainVars, carryVars, pairVars, sessionVars>>

(* Scan returns false at the end of standard input: the loop ends and the  *)
(* program exits.                                                          *)
StdinEof ==
    /\ progExit = "running"
    /\ nRead = Len(stdinLines)
    /\ progExit' = "exit 0"
    /\ UNCHANGED <<prog, embedded, stdinLines, nRead, stdoutLines,
                   stderrLines>>
    /\ UNCHANGED <<valVars, trackerVars, handlerVars, runVars, extractVars,
                   spawnVars, mainVars, carryVars, pairVars, sessionVars>>

(***************************************************************************)
(* go-handler's session: handleRequest on the SessionState that main       *)
(* creates once, over a sequence of parsed requests. A chainstate manager  *)
(* is kept with the directory it was created on.                           *)
(***************************************************************************)
MaxRequests == 3

SessionMethods == GoMethods \cup {"nosuch"}

SessionRequests == [ID : RequestIDs, Method : SessionMethods]

(* The names os.MkdirTemp("", "conformance_test_") returns, each new.      *)
TempDirNames ==
    <<"conformance_test_1", "conformance_test_2", "conformance_test_3",
      "conformance_test_4", "conformance_test_5">>

NewSessionState == [chainstateManager |-> Nil, tempDir |-> ""]

NoRequest == [ID |-> "", Method |-> ""]

NoResponse == [ID |-> "", Result |-> Nil, Error |-> Nil]

SessionIdle ==
    /\ state = NewSessionState
    /\ tempDirs = {}
    /\ made = 0
    /\ handled = 0
    /\ sessReq = NoRequest
    /\ sessResp = NoResponse
    /\ lastSetup = "none"

(* SessionState.Cleanup: the manager is destroyed and forgotten, the temp  *)
(* directory is removed and forgotten.                                     *)
Cleanup(s, disk) ==
    [state |-> [chainstateManager |-> Nil, tempDir |-> ""],
     disk |-> IF s.tempDir # "" THEN disk \ {s.tempDir} ELSE disk]

(* What a method handler returns: its response, or a panic, with the       *)
(* session state and the disk as it leaves them.                           *)
Returned(resp, s, disk) ==
    [panic |-> FALSE, resp |-> resp, state |-> s, disk |-> disk]

Panicked(s, disk) ==
    [panic |-> TRUE, resp |-> NoResponse, state |-> s, disk |-> disk]

(* The ways through handleChainstateSetup: the params do not decode;       *)
(* MkdirTemp fails; the chain type is unknown; a kernel call before the    *)
(* manager exists fails or panics; ImportBlocks fails; a block of          *)
(* blocks_hex does not decode or is not accepted; all goes well.           *)
SetupPaths ==
    {"params", "mkdir", "chaintype", "kernel", "panic", "import", "block",
     "success"}

handleChainstateSetup(req, s, disk, dir, path) ==
    IF path = "params"
    THEN Returned(NewErrorResponse(req.ID, ErrInvalidParams,
                                   "Failed to parse params"), s, disk)
    ELSE
    LET c == Cleanup(s, disk) IN
    IF path = "mkdir"
    THEN Returned(NewErrorResponse(req.ID, ErrInternalError,
                                   "Failed to create temp dir"),
                  c.state, c.disk)
    ELSE
    LET s1 == [c.state EXCEPT !.tempDir = dir]
        disk1 == c.disk \cup {dir}
        c1 == Cleanup(s1, disk1)
        s2 == [s1 EXCEPT !.chainstateManager = Ptr(dir)]
        c2 == Cleanup(s2, disk1)
    IN CASE path = "chaintype" ->
              Returned(NewErrorResponse(req.ID, ErrInvalidParams,
                                        "Unknown chain type"),
                       c1.state, c1.disk)
         [] path = "kernel" ->
              Returned(NewErrorResponse(req.ID, ErrKernel,
                                        "Failed to create manager"),
                       c1.state, c1.disk)
         [] path = "panic" -> Panicked(s1, disk1)
         [] path = "import" ->
              Returned(NewErrorResponse(req.ID, ErrKernel,
                                        "Failed to initialize"),
                       c2.state, c2.disk)
         [] path = "block" ->
              Returned(NewErrorResponse(req.ID, ErrKernel,
                                        "Failed to process block"),
                       s2, disk1)
         [] OTHER ->
              Returned(NewSuccessResponse(req.ID, Ptr("blocks_imported")),
                       s2, disk1)

(* The ways through handleChainstateReadBlock once a manager is held.      *)
ReadBlockPaths == {"params", "kernel", "panic", "success"}

handleChainstateReadBlock(req, s, disk, path) ==
    IF s.chainstateManager = Nil
    THEN Returned(NewErrorResponse(req.ID, ErrInternalError,
                                   "Chainstate not initialized"), s, disk)
    ELSE CASE path = "params" ->
                Returned(NewErrorResponse(req.ID, ErrInvalidParams,
                                          "Must specify either height or tip"),
                         s, disk)
           [] path = "kernel" ->
                Returned(NewErrorResponse(req.ID, ErrKernel,
                                          "Block not found"), s, disk)
           [] path = "panic" -> Panicked(s, disk)
           [] OTHER ->
                Returned(NewSuccessResponse(req.ID, Ptr("block_hex")), s, disk)

handleChainstateTeardown(req, s, disk) ==
    Returned(NewSuccessResponse(req.ID, Ptr("success")),
             Cleanup(s, disk).state, Cleanup(s, disk).disk)

(* The ways through handleScriptPubkeyVerify.                              *)
VerifyPaths == {"params", "kernel", "panic", "success"}

handleScriptPubkeyVerify(req, s, disk, path) ==
    CASE path = "params" ->
           Returned(NewErrorResponse(req.ID, ErrInvalidParams,
                                     "Failed to parse params"), s, disk)
      [] path = "kernel" ->
           Returned(NewErrorResponse(req.ID, "SCRIPT_VERIFY_ERROR",
                                     "Script verification failed"), s, disk)
      [] path = "panic" -> Panicked(s, disk)
      [] OTHER -> Returned(NewSuccessResponse(req.ID, Ptr("valid")), s, disk)

PathsOf(method) ==
    CASE method = "chainstate.setup" -> SetupPaths
      [] method = "chainstate.read_block" -> ReadBlockPaths
      [] method = "script_pubkey.verify" -> VerifyPaths
      [] OTHER -> {"success"}

(* handleRequest's switch on req.Method.                                   *)
Dispatch(req, s, disk, dir, path) ==
    CASE req.Method = "script_pubkey.verify" ->
           handleScriptPubkeyVerify(req, s, disk, path)
      [] req.Method = "chainstate.setup" ->
           handleChainstateSetup(req, s, disk, dir, path)
      [] req.Method = "chainstate.read_block" ->
           handleChainstateReadBlock(req, s, disk, path)
      [] req.Method = "chainstate.teardown" ->
           handleChainstateTeardown(req, s, disk)
      [] OTHER ->
           Returned(NewErrorResponse(req.ID, ErrMethodNotFound,
                                     "Unknown method"), s, disk)

(* A handleRequest whose recover leaves the response as it is.             *)
handleRequestRecoverKeepsResponse(req, s, disk, dir, path) ==
    Dispatch(req, s, disk, dir, path)

(* handleRequest: the method handler's response, or, when it panicked,     *)
(* the INTERNAL_ERROR response the deferred recover puts in its place.     *)
handleRequest(req, s, disk, dir, path) ==
    LET r == Dispatch(req, s, disk, dir, path) IN
    IF r.panic
    THEN [r EXCEPT !.resp = NewErrorResponse(req.ID, ErrInternalError,
                                             "Internal error (panic)")]
    ELSE r

(* main's loop for a line that decodes into a Request: handleRequest on    *)
(* the session state, then sendResponse.                                   *)
SessionRequest ==
    /\ handled < MaxRequests
    /\ \E req \in SessionRequests : \E path \in PathsOf(req.Method) :
          LET r == handleRequest(req, state, tempDirs,
                                 TempDirNames[made + 1], path)
          IN /\ state' = r.state
             /\ tempDirs' = r.disk
             /\ made' = IF /\ req.Method = "chainstate.setup"
                           /\ path \notin {"params", "mkdir"}
                        THEN made + 1 ELSE made
             /\ sessReq' = req
             /\ sessResp' = r.resp
             /\ lastSetup' =
                   CASE req.Method = "chainstate.setup" ->
                          IF r.resp.Error = Nil THEN "setup ok"
                                                ELSE "setup error"
                     [] req.Method = "chainstate.teardown" -> "teardown"
                     [] OTHER -> lastSetup
    /\ handled' = handled + 1
    /\ UNCHANGED <<valVars, trackerVars, handlerVars, runVars, extractVars,
                   spawnVars, progVars, mainVars, carryVars, pairVars>>

(***************************************************************************)
(* The runner the mock handler was written against (the revision of        *)
(* runner.go whose responses carry a success flag): the response line on   *)
(* the wire, and runTest's checks of the response read from it.            *)
(***************************************************************************)
(* json.Marshal of a runner.Response: the error member is left out when    *)
(* Error is nil (omitempty).                                               *)
MarshalResponse(r) ==
    IF r.Error = Nil
    THEN [id |-> r.ID, success |-> r.Success]
    ELSE [id |-> r.ID, success |-> r.Success,
          error |-> [code |-> [type |-> Deref(r.Error).Code.Type,
                               member |-> Deref(r.Error).Code.Member]]]

(* json.Unmarshal of a response line into a runner.Response.               *)
UnmarshalResponse(j) ==
    [ID |-> j.id,
     Success |-> j.success,
     Error |-> IF "error" \in DOMAIN j
               THEN Ptr([Code |-> [Type |-> j.error.code.type,
                                   Member |-> j.error.code.member]])
               ELSE Nil]

(* validateResponse of that revision: the Message of the failure, or ""    *)
(* when the test passes.                                                   *)
validateResponseBySuccess(test, resp) ==
    IF test.Expected.Success # resp.Success
    THEN "Success mismatch"
    ELSE IF test.Expected.Error # Nil
    THEN IF resp.Error = Nil
         THEN "Expected error but got none"
         ELSE IF Deref(resp.Error).Code.Type # Deref(test.Expected.Error).Code.Type
         THEN "Error type mismatch"
         ELSE IF Deref(resp.Error).Code.Member
                     # Deref(test.Expected.Error).Code.Member
         THEN "Error member mismatch"
         ELSE ""
    ELSE IF test.Expected.Success
    THEN IF resp.Error # Nil THEN "Expected success but got error" ELSE ""
    ELSE ""

(* runTest of that revision, from the response on.                         *)
runTestBySuccess(test, resp) ==
    IF resp.ID # test.ID
    THEN "Response ID mismatch"
    ELSE validateResponseBySuccess(test, resp)

(* One call of validateResponse, as runTest makes it for the response it   *)
(* read: the test case and the response are the inputs drawn by Init.      *)
Validate ==
    /\ vErr = "none"
    /\ vErr' = validateResponse(vTest, vResp)
    /\ UNCHANGED <<vTest, vResp>>
    /\ UNCHANGED <<trackerVars, handlerVars, runVars, extractVars, spawnVars, progVars, mainVars, carryVars, pairVars, sessionVars>>

InitValidate ==
    /\ vTest \in ValTestCases
    /\ vResp \in ValResponses
    /\ vErr = "none"
    /\ TrackerIdle
    /\ HandlerIdle
    /\ RunIdle
    /\ ExtractIdle
    /\ SpawnIdle
    /\ ProgIdle
    /\ MainIdle
    /\ CarryIdle
    /\ PairIdle
    /\ SessionIdle

NextValidate == Validate

SpecValidate == InitValidate /\ [][NextValidate]_vars

InitTracker ==
    /\ TrackerIdle
    /\ ValIdle
    /\ HandlerIdle
    /\ RunIdle
    /\ ExtractIdle
    /\ SpawnIdle
    /\ ProgIdle
    /\ MainIdle
    /\ CarryIdle
    /\ PairIdle
    /\ SessionIdle

NextTracker == BuildDependencies \/ TestExecuted

SpecTracker == InitTracker /\ [][NextTracker]_vars

InitHandler ==
    /\ NewHandler
    /\ ValIdle
    /\ TrackerIdle
    /\ RunIdle
    /\ ExtractIdle
    /\ SpawnIdle
    /\ ProgIdle
    /\ MainIdle
    /\ CarryIdle
    /\ PairIdle
    /\ SessionIdle

CallerStep ==
    \/ SelectScanDone
    \/ SelectTimeout
    \/ ReadLineKill
    \/ ReadLineDrain
    \/ SelectDone
    \/ SelectGrace
    \/ CloseKill
    \/ CloseWait

NextHandler ==
    \/ SendLine
    \/ ReadLineStart
    \/ CloseStart
    \/ CallerStep
    \/ ReaderScan
    \/ WaiterReturns
    \/ Tick
    \/ ChildRespond
    \/ ChildStderr
    \/ ChildExit
    \/ KilledChildDies

SpecHandler == InitHandler /\ [][NextHandler]_vars

(* The Go scheduler runs every runnable goroutine, time passes, and a      *)
(* killed process dies; whether the child answers or exits of its own      *)
(* accord is left open.                                                    *)
FairSpecHandler ==
    /\ SpecHandler
    /\ WF_vars(CallerStep)
    /\ WF_vars(ReaderScan)
    /\ WF_vars(WaiterReturns)
    /\ WF_vars(Tick)
    /\ WF_vars(KilledChildDies)


InitRun ==
    /\ rpc = "load"
    /\ nSuites \in 1..MaxSuites
    /\ si = 0
    /\ suite = NoSuite
    /\ ti = 0
    /\ results = <<>>
    /\ skipTests = FALSE
    /\ ctxDone = FALSE
    /\ tr = NewTestRunner
    /\ requests = 0
    /\ expiredAtCheck = FALSE
    /\ lastEvent = "none"
    /\ MainIdle
    /\ ValIdle
    /\ TrackerIdle
    /\ HandlerIdle
    /\ ExtractIdle
    /\ SpawnIdle
    /\ ProgIdle
    /\ CarryIdle
    /\ PairIdle
    /\ SessionIdle

RunnerStep ==
    \/ LoadSuite
    \/ LoadSuiteFails
    \/ BeginTest
    \/ SendRequest
    \/ ReadResponse
    \/ EndSuite
    \/ Finish

NextRun ==
    \/ RunnerStep
    \/ HandlerCrash
    \/ DeadlineExpires

SpecRun == InitRun /\ [][NextRun]_vars

InitExtract ==
    /\ xParams \in ExtractInputs
    /\ xRefs = Nil
    /\ ValIdle
    /\ TrackerIdle
    /\ HandlerIdle
    /\ RunIdle
    /\ SpawnIdle
    /\ ProgIdle
    /\ MainIdle
    /\ CarryIdle
    /\ PairIdle
    /\ SessionIdle

NextExtract == Extract

SpecExtract == InitExtract /\ [][NextExtract]_vars

InitSpawn ==
    /\ spc = "stdin"
    /\ cfg \in HandlerConfigs
    /\ freeFds \in 0..MaxFree
    /\ pipes = {}
    /\ started = FALSE
    /\ spawnErr = "none"
    /\ ValIdle
    /\ TrackerIdle
    /\ HandlerIdle
    /\ RunIdle
    /\ ExtractIdle
    /\ ProgIdle
    /\ MainIdle
    /\ CarryIdle
    /\ PairIdle
    /\ SessionIdle

NextSpawn == StdinPipe \/ StdoutPipe \/ StderrPipe \/ Start \/ Finalize

SpecSpawn == InitSpawn /\ [][NextSpawn]_vars

InitProg ==
    /\ prog \in Programs
    /\ embedded \in (IF prog = "mock-handler" THEN EmbeddedSuites ELSE {<<>>})
    /\ stdinLines \in SeqsUpTo(RequestLines, MaxLines)
    /\ nRead = 0
    /\ stdoutLines = <<>>
    /\ stderrLines = 0
    /\ progExit = "running"
    /\ ValIdle
    /\ TrackerIdle
    /\ HandlerIdle
    /\ RunIdle
    /\ ExtractIdle
    /\ SpawnIdle
    /\ MainIdle
    /\ CarryIdle
    /\ PairIdle
    /\ SessionIdle

NextProg == MockHandlerLine \/ GoHandlerLine \/ StdinEof

SpecProg == InitProg /\ [][NextProg]_vars

InitMain ==
    /\ totalPassed = 0
    /\ totalFailed = 0
    /\ totalTests = 0
    /\ tallies = <<>>
    /\ exitCode = "running"
    /\ suiteResults = <<>>
    /\ filesLeft \in 1..MaxSuites
    /\ ValIdle
    /\ TrackerIdle
    /\ HandlerIdle
    /\ RunIdle
    /\ ExtractIdle
    /\ SpawnIdle
    /\ ProgIdle
    /\ CarryIdle
    /\ PairIdle
    /\ SessionIdle

NextMain == MainRunSuite \/ MainLoadFails \/ MainExit

SpecMain == InitMain /\ [][NextMain]_vars

InitPair ==
    /\ pairPc = "send"
    /\ pairTest = 1
    /\ pairHandler = Ptr(1)
    /\ pairProcs = <<NewProcess>>
    /\ pairLog = <<>>
    /\ ValIdle
    /\ TrackerIdle
    /\ HandlerIdle
    /\ RunIdle
    /\ ExtractIdle
    /\ SpawnIdle
    /\ ProgIdle
    /\ MainIdle
    /\ CarryIdle
    /\ SessionIdle

NextPair ==
    \/ PairSendRequest
    \/ PairReadResponse
    \/ HandlerAnswers
    \/ HandlerExits

SpecPair == InitPair /\ [][NextPair]_vars

InitSession ==
    /\ state = NewSessionState
    /\ tempDirs = {}
    /\ made = 0
    /\ handled = 0
    /\ sessReq = NoRequest
    /\ sessResp = NoResponse
    /\ lastSetup = "none"
    /\ ValIdle
    /\ TrackerIdle
    /\ HandlerIdle
    /\ RunIdle
    /\ ExtractIdle
    /\ SpawnIdle
    /\ ProgIdle
    /\ MainIdle
    /\ CarryIdle
    /\ PairIdle

NextSession == SessionRequest

SpecSession == InitSession /\ [][NextSession]_vars

Validated == vErr # "none"

Accepted == vErr = "nil"

ExpectsError == vTest.Expected.Error # Nil

ErrorPresent(resp) == resp.Error # Nil

ResultPresent(resp) == ~IsNullOrOmitted(resp.Result)

(* The expected error's code, when there is one, is matched by the         *)
(* response's: present, with the same type and the same member.            *)
CodeMatches(test, resp) ==
    \/ Deref(test.Expected.Error).Code = Nil
    \/ /\ Deref(resp.Error).Code # Nil
       /\ Deref(Deref(resp.Error).Code).Type
              = Deref(Deref(test.Expected.Error).Code).Type
       /\ Deref(Deref(resp.Error).Code).Member
              = Deref(Deref(test.Expected.Error).Code).Member

ErrorCaseHolds(test, resp) ==
    /\ ErrorPresent(resp)
    /\ IsNullOrOmitted(resp.Result)
    /\ CodeMatches(test, resp)

CanonicalFormsEqual(expected, actual) ==
    /\ ~Normalize(expected).err
    /\ ~Normalize(actual).err
    /\ Normalize(expected).text = Normalize(actual).text

SuccessCaseHolds(test, resp) ==
    /\ ~ErrorPresent(resp)
    /\ \/ IsNullOrOmitted(test.Expected.Result) /\ IsNullOrOmitted(resp.Result)
       \/ /\ ~IsNullOrOmitted(test.Expected.Result)
          /\ CanonicalFormsEqual(test.Expected.Result, resp.Result)

(* C8: a response carrying both a non-null error and a non-null result is  *)
(* rejected by validateResponse, whatever the test expects.                *)
C8_ErrorWithResultRejected ==
    (Validated /\ ErrorPresent(vResp) /\ ResultPresent(vResp)) => ~Accepted

(* C8 witness: an error was expected and its code matched exactly, the ids *)
(* agree, and the response was rejected for its non-null result alone.     *)
C8_Witness ==
    /\ Validated
    /\ ExpectsError
    /\ vResp.ID = vTest.ID
    /\ ErrorPresent(vResp) /\ ResultPresent(vResp)
    /\ vResp.Error = vTest.Expected.Error
    /\ Deref(vTest.Expected.Error).Code # Nil
    /\ vErr = "expected result to be null or omitted when error is present"

RegisteredRef(j) == extractRefFromExpected(allTests[j + 1].ExpectedResponse)

ConsumedRefs(i) == SeqToSet(extractRefsFromParams(allTests[i + 1].Request.Params))

Registrars(r, i) == {j \in 0..(i - 1) : RegisteredRef(j) = r}

(* The most recent earlier test that registered r.                         *)
CreatorAt(r, i) == CHOOSE j \in Registrars(r, i) : \A k \in Registrars(r, i) : k <= j

DirectCreators(i) == {CreatorAt(r, i) : r \in ConsumedRefs(i)}

RECURSIVE Closure(_)
Closure(S) ==
    LET next == S \cup UNION {DirectCreators(j) : j \in S}
    IN IF next = S THEN S ELSE Closure(next)

(* The tests reachable from i along "consumes a reference created by".     *)
Reachable(i) == Closure(DirectCreators(i))

BuiltTests == DOMAIN dt.depChains

(* C4: for every test i the stored chain depChains[i] is exactly the set   *)
(* of earlier tests reachable from i along "consumes a reference created   *)
(* by" edges; it holds neither i nor any index greater than i.             *)
C4_DepChainIsTransitiveClosure ==
    \A i \in BuiltTests :
        /\ SeqToSet(dt.depChains[i]) = Reachable(i)
        /\ i \notin SeqToSet(dt.depChains[i])
        /\ \A j \in SeqToSet(dt.depChains[i]) : j < i

(* C4 witness: an executed test whose chain holds a test it reaches only   *)
(* through another test's chain, and whose consumed reference had been     *)
(* registered twice before it ran.                                         *)
C4_Witness ==
    /\ executed = Len(allTests)
    /\ \E i \in BuiltTests :
          /\ Reachable(i) \ DirectCreators(i) # {}
          /\ SeqToSet(dt.depChains[i]) = Reachable(i)
    /\ \E i \in BuiltTests :
          \E r \in ConsumedRefs(i) : Cardinality(Registrars(r, i)) > 1

statefulCreatorMethods == {"btck_context_create", "btck_chainstate_manager_create"}

ExecutedTests == 0..(executed - 1)

(* Test i consumes, itself or through a test of its dependency chain, a    *)
(* reference whose creator used a stateful-creator method.                 *)
ConsumesStatefulCreated(i) ==
    \E j \in {i} \cup Reachable(i) :
        \E r \in ConsumedRefs(j) :
            allTests[CreatorAt(r, j) + 1].Request.Method \in statefulCreatorMethods

(* C5 as stated: BuildRequestChain(i) is the sorted union of depChains[i]  *)
(* and the whole state-dependency set when test i consumes, directly or    *)
(* through its dependency chain, a reference created by a stateful-creator *)
(* method, and is exactly depChains[i] in every other case.                *)
C5_RequestChain ==
    \A i \in ExecutedTests :
        LET chain == BuildRequestChain(dt, i, allTests) IN
        IF ConsumesStatefulCreated(i)
        THEN /\ SeqToSet(dt.stateDependencies) \subseteq SeqToSet(chain)
             /\ chain = mergeSortedUnique(<<dt.depChains[i], dt.stateDependencies>>)
        ELSE chain = dt.depChains[i]


(***************************************************************************)
(* The handler process controller.                                         *)
(***************************************************************************)
InReadLine == hpc \in {"rl_select", "rl_kill", "rl_drain"}

InClose == hpc \in {"cl_select", "cl_kill", "cl_wait"}

C3_CloseTerminatesChildExited ==
    /\ [](hpc = "closed" => child.state = "exited")
    /\ (InClose ~> hpc = "closed")

C3_Witness ==
    /\ hpc = "closed"
    /\ child.killed
    /\ waited = CloseGrace
    /\ readResult.err \notin {ErrHandlerTimeout, ErrHandlerClosed}


(***************************************************************************)
(* The test runner.                                                        *)
(***************************************************************************)
TransportCauses == {"write", "readline"}

Failed(j) == ~results[j].passed

EarlierFailure(j) == \E k \in 1..(j - 1) : Failed(k)

(* C2: a SendLine or ReadLine failure fails the one test it happened in,   *)
(* closes the handler and leaves tr.handler nil; a request is only ever    *)
(* in flight to a handler that was not closed, so the next request goes   *)
(* to a process spawned after the failure; no test writes more than one    *)
(* request; and the run goes on to the end: every test of a suite gets     *)
(* one result, the runner always has a next step until main returns, and   *)
(* main returns only after the last test file.                             *)
C2_TransportFailureIsolated ==
    /\ lastEvent \in {"sendfail", "readfail"} =>
          /\ rpc = "check"
          /\ tr.handler = Nil
          /\ results # <<>>
          /\ LET r == results[Len(results)] IN
                /\ ~r.passed
                /\ r.cause \in TransportCauses
                /\ r.pid \in tr.closed
                /\ r.pid \notin tr.live
    /\ rpc \in {"check", "send", "read"} => Len(results) = ti - 1
    /\ rpc \in {"send", "read"} => ti <= suite.n
    /\ requests <= 1
    /\ \A j \in DOMAIN results : results[j].requests <= 1
    /\ rpc = "read" =>
          /\ tr.handler # Nil
          /\ Deref(tr.handler) \notin tr.closed
          /\ requests = 1
    /\ \A j \in DOMAIN results : \A k \in DOMAIN results :
          (j < k /\ results[j].cause \in TransportCauses
                 /\ results[k].requests = 1)
             => results[k].pid > results[j].pid
    /\ (rpc = "load" /\ si > 0) => Len(results) = suite.n
    /\ rpc = "done" => si = nSuites
    /\ rpc # "done" => ENABLED RunnerStep

C2_Witness ==
    /\ Len(results) = 3
    /\ results[1].cause = "readline"
    /\ results[2].cause = "write"
    /\ results[3].passed
    /\ results[3].pid = results[1].pid + 2

(* C6: in a stateful suite every test after a failed one is recorded       *)
(* failed with the skip message and without a request written, and no      *)
(* test is being run once one has failed; in a suite that is not stateful  *)
(* no test is skipped, and every test that began before the run's          *)
(* deadline was run.                                                       *)
C6_StatefulShortCircuit ==
    /\ suite.Stateful =>
          /\ \A j \in DOMAIN results : EarlierFailure(j) =>
                /\ ~results[j].passed
                /\ results[j].message = MsgSkipped
                /\ results[j].requests = 0
                /\ results[j].pid = 0
          /\ (\E k \in DOMAIN results : Failed(k)) =>
                rpc \notin {"send", "read"}
    /\ ~suite.Stateful =>
          /\ ~skipTests
          /\ \A j \in DOMAIN results :
                /\ results[j].message # MsgSkipped
                /\ ~results[j].expired =>
                      results[j].cause \notin {"skip", "deadline"}

C6_Witness ==
    /\ suite.Stateful
    /\ Len(results) = 3
    /\ results[1].cause = "validate"
    /\ results[1].requests = 1
    /\ results[2].message = MsgSkipped
    /\ results[3].message = MsgSkipped
    /\ ~results[3].expired

OtherwiseMatches(test, resp) ==
    IF test.Expected.Error # Nil
    THEN ErrorCaseHolds(test, resp)
    ELSE SuccessCaseHolds(test, resp)

CodelessError == Ptr([Code |-> Nil])

(* C12: an error without a code is an error. With equal ids and a null or  *)
(* omitted result, an expected error {} accepts an actual error {}; an     *)
(* expected error {} never accepts a response whose error is null or       *)
(* omitted; and a test that expects success never accepts an actual        *)
(* error {}.                                                               *)
C12_CodelessErrorIsAnError ==
    Validated =>
        /\ (/\ vTest.Expected.Error = CodelessError
            /\ vResp.Error = CodelessError
            /\ vResp.ID = vTest.ID
            /\ IsNullOrOmitted(vResp.Result)) => Accepted
        /\ (vTest.Expected.Error = CodelessError /\ vResp.Error = Nil)
              => ~Accepted
        /\ (~ExpectsError /\ vResp.Error = CodelessError) => ~Accepted

C12_Witness ==
    /\ Validated
    /\ vTest.Expected.Error = CodelessError
    /\ vResp.Error = CodelessError
    /\ vResp.Result = <<"null">>
    /\ Accepted


(***************************************************************************)
(* The JSON value a text denotes, read off its tokens with exact numbers:  *)
(* a scalar, or the set of an object's key/value pairs.                    *)
(***************************************************************************)
ExactScalar(tok) ==
    IF tok \in NumberTokens
    THEN <<"number", DecimalDigits(tok).int>>
    ELSE <<"literal", tok>>

ExactValue(raw) ==
    LET toks == StripWS(raw) IN
    IF Len(toks) = 1 THEN <<"scalar", ExactScalar(toks[1])>>
    ELSE <<"object",
           {<<toks[i], ExactScalar(toks[i + 2])>> :
                i \in {j \in 1..(Len(toks) - 2) : toks[j + 1] = ":"}}>>

(* C13: for two results that Normalize accepts, the normalized strings are *)
(* equal exactly when the two texts denote the same JSON value: texts that *)
(* differ in key order or whitespace normalize alike, texts of different   *)
(* values normalize apart.                                                 *)
C13_NormalizeIsValueEquality ==
    (/\ Validated
     /\ ~Normalize(vTest.Expected.Result).err
     /\ ~Normalize(vResp.Result).err)
    => ((Normalize(vTest.Expected.Result).text = Normalize(vResp.Result).text)
          <=> (ExactValue(vTest.Expected.Result) = ExactValue(vResp.Result)))


(***************************************************************************)
(* The dependency tracker: undefined references, marks and chains.         *)
(***************************************************************************)
(* C14: a test that consumes a reference no earlier executed test has      *)
(* registered is never admitted: BuildDependenciesForTest panics, the      *)
(* panic names the test's index and a reference no earlier test            *)
(* registered, OnTestExecuted is not called for that test, and nothing     *)
(* happens after the panic.                                                *)
C14_UndefinedRefIsFatal ==
    /\ [](\A i \in 0..(Len(allTests) - 1) :
            \A r \in ConsumedRefs(i) : Registrars(r, i) # {})
    /\ [](panicked # Nil =>
            /\ Deref(panicked).testIndex = Len(allTests)
            /\ executed = Len(allTests)
            /\ \A j \in 0..(Len(allTests) - 1) :
                  RegisteredRef(j) # Deref(panicked).ref)
    /\ [][panicked = Nil]_vars

C14_Witness ==
    /\ panicked # Nil
    /\ Deref(panicked).testIndex = 2
    /\ Deref(panicked).ref = "\"$b\""
    /\ \E j \in 0..1 : RegisteredRef(j) = "\"$a\""


(***************************************************************************)
(* The handler process controller: the failure path of ReadLine.           *)
(***************************************************************************)
(* C15: on the failure path of ReadLine (end of output or timeout) the     *)
(* child is killed before stderr is read; stderr is read to its end, which *)
(* comes when the child has exited; and the returned error is              *)
(* ErrHandlerClosed or ErrHandlerTimeout as the select chose, with the     *)
(* stderr text attached exactly when the child wrote any.                  *)
C15_FailedReadKillsAndDrains ==
    /\ hpc = "rl_kill" => baseErr \in {ErrHandlerClosed, ErrHandlerTimeout}
    /\ hpc = "rl_drain" =>
          /\ child.killed
          /\ baseErr \in {ErrHandlerClosed, ErrHandlerTimeout}
    /\ (hpc = "failed"
          /\ readResult.err \in {ErrHandlerClosed, ErrHandlerTimeout}) =>
          /\ child.killed
          /\ child.state = "exited"
          /\ readResult.err = baseErr
          /\ readResult.withStderr = child.stderr

C15_Witness ==
    /\ hpc = "failed"
    /\ readResult.err = ErrHandlerClosed
    /\ readResult.withStderr
    /\ child.killed
    /\ exchanges = 2


(***************************************************************************)
(* The test runner: one handler, one request.                              *)
(***************************************************************************)
HeldProcess == IF tr.handler = Nil THEN {} ELSE {Deref(tr.handler)}

(* C16: the only process that can be alive is the one of the handler the   *)
(* runner holds, which is the last one spawned; every other spawned        *)
(* process was closed; a process is spawned only by SendRequest when no    *)
(* handler is held; and a request is written only when none is             *)
(* outstanding: the test's one request is in flight exactly while          *)
(* ReadResponse is pending.                                                *)
C16_OneHandlerOneRequest ==
    /\ [](/\ Cardinality(tr.live) <= 1
          /\ tr.live \subseteq HeldProcess
          /\ HeldProcess \subseteq {tr.spawned}
          /\ tr.closed = (1..tr.spawned) \ HeldProcess
          /\ requests <= 1
          /\ rpc = "send" => requests = 0
          /\ rpc = "read" => (requests = 1 /\ tr.handler # Nil))
    /\ [][tr'.spawned # tr.spawned =>
             (rpc = "send" /\ tr.handler = Nil
              /\ tr'.spawned = tr.spawned + 1)]_vars
    /\ [][requests' > requests => (rpc = "send" /\ rpc' = "read")]_vars

C16_Witness ==
    /\ rpc = "read"
    /\ tr.spawned = 3
    /\ tr.live = {3}
    /\ tr.closed = {1, 2}
    /\ requests = 1


(***************************************************************************)
(* The tracker's marks and state dependencies after the executed tests.    *)
(***************************************************************************)
(* The executed tests that registered r with a stateful-creator method.    *)
StatefulRegistrars(r) ==
    {j \in ExecutedTests :
        /\ RegisteredRef(j) = r
        /\ allTests[j + 1].Request.Method \in statefulCreatorMethods}

RegisteredRefs == {RegisteredRef(j) : j \in ExecutedTests} \ {""}

(* C17: a reference is marked stateful exactly when some executed test     *)
(* registered it with a stateful-creator method; a reference registered    *)
(* only with other methods is not marked.                                  *)
C17_StatefulMarks ==
    /\ dt.statefulRefs \subseteq RegisteredRefs
    /\ \A r \in RegisteredRefs :
          r \in dt.statefulRefs <=> StatefulRegistrars(r) # {}

(* C17 witness: one reference registered by a stateful creator and later   *)
(* again by another method, which is marked, beside one registered only by *)
(* btck_block_create, which is not.                                        *)
C17_Witness ==
    /\ executed = 3
    /\ \E r \in dt.statefulRefs :
          \E j \in StatefulRegistrars(r) :
              \E k \in ExecutedTests :
                  /\ k > j
                  /\ RegisteredRef(k) = r
                  /\ allTests[k + 1].Request.Method = "btck_block_create"
    /\ \E r \in RegisteredRefs \ dt.statefulRefs :
          \A j \in ExecutedTests :
              RegisteredRef(j) = r =>
                  allTests[j + 1].Request.Method = "btck_block_create"


(* The executed tests whose method is state-mutating.                      *)
ExecutedMutators ==
    {i \in ExecutedTests :
        allTests[i + 1].Request.Method \in stateMutatingMethods}

(* C18: the state-dependency set is the union, over the executed           *)
(* state-mutating tests i, of depChains[i] and {i}; and executing a test   *)
(* whose method is not state-mutating leaves it as it was.                 *)
C18_StateDependencies ==
    /\ [](SeqToSet(dt.stateDependencies) =
             UNION {SeqToSet(dt.depChains[i]) \cup {i} : i \in ExecutedMutators})
    /\ [][(/\ executed' = executed + 1
           /\ allTests[executed + 1].Request.Method \notin stateMutatingMethods)
             => dt'.stateDependencies = dt.stateDependencies]_vars

(* C18 witness: a state-mutating test with a dependency chain was          *)
(* executed, and after it a test with another method.                      *)
C18_Witness ==
    /\ executed = 3
    /\ allTests[3].Request.Method \notin stateMutatingMethods
    /\ \E i \in ExecutedMutators : dt.depChains[i] # <<>>
    /\ Len(dt.stateDependencies) >= 2


StrictlyAscending(s) == \A m, n \in 1..Len(s) : m < n => s[m] < s[n]

RefsUsed(i) == extractRefsFromParams(allTests[i + 1].Request.Params)

(* C19: every stored chain depChains[i], the state-dependency list and     *)
(* every result of BuildRequestChain is strictly ascending, hence without  *)
(* duplicates.                                                             *)
C19_ChainsAscending ==
    /\ StrictlyAscending(dt.stateDependencies)
    /\ \A i \in BuiltTests :
          /\ StrictlyAscending(dt.depChains[i])
          /\ StrictlyAscending(BuildRequestChain(dt, i, allTests))

(* C19 witness: one test lists two references of one creator, another      *)
(* lists the reference of the later creator before that of the earlier     *)
(* one, and a request chain merges the state dependencies in.              *)
C19_Witness ==
    /\ \E k \in BuiltTests :
          /\ Len(RefsUsed(k)) = 2
          /\ RefsUsed(k)[1] = RefsUsed(k)[2]
          /\ Len(dt.depChains[k]) = 1
    /\ \E i \in BuiltTests :
          /\ Len(RefsUsed(i)) = 2
          /\ CreatorAt(RefsUsed(i)[1], i) > CreatorAt(RefsUsed(i)[2], i)
          /\ Len(dt.depChains[i]) = 2
    /\ \E i \in BuiltTests :
          /\ testUsesStatefulRefs(dt, i, allTests)
          /\ dt.stateDependencies # <<>>


IsBareRef(v) ==
    /\ Len(v) = 1
    /\ v[1] \in StringTokens
    /\ Len(StrChars(v[1])) > 1
    /\ StrChars(v[1])[1] = "$"

IsWrappedRef(v) ==
    /\ Len(v) = 5
    /\ v[1] = "{" /\ v[2] = "\"ref\"" /\ v[3] = ":" /\ v[5] = "}"
    /\ IsBareRef(<<v[4]>>)

RefName(v) == IF IsBareRef(v) THEN v[1] ELSE v[4]

(* The references at the top level of the params, in either encoding.      *)
TopLevelRefs(in) ==
    {RefName(v) : v \in {w \in {in.a, in.b} : IsBareRef(w) \/ IsWrappedRef(w)}}

(* C21 as stated: the extracted references are those of the top-level      *)
(* values that are a bare "$name" string or an object {"ref": "$name"},    *)
(* under the same name for both encodings, and no reference that lies      *)
(* deeper.                                                                 *)
C21_BothEncodingsExtracted ==
    xRefs # Nil => SeqToSet(Deref(xRefs)) = TopLevelRefs(xParams)


C23_FailedSpawnLeavesNothing ==
    spc = "failed" => (spawnErr # "nil" /\ ~started /\ pipes = {})


(***************************************************************************)
(* The exchange of lines with a responsive handler.                        *)
(***************************************************************************)
(* The line of the pending exchange reached ReadLine's Scanner.            *)
LineArrived == readResult.err \in {"nil", ErrTooLong}

(* C24 as stated: every SendLine has put exactly one line before the       *)
(* child, and the k-th ReadLine that a line of the child reaches returns   *)
(* the k-th line the child wrote, as the child wrote it up to the newline. *)
C24_ExchangeReturnsNextLine ==
    /\ hpc \in {"sent", "rl_select"} =>
           child.pending + Len(child.wrote) = exchanges
    /\ LineArrived =>
           /\ readResult.err = "nil"
           /\ readResult.line =
                  [n |-> exchanges, text |-> child.wrote[exchanges]]


(***************************************************************************)
(* The handler programs.                                                   *)
(***************************************************************************)
(* C25 as stated: each program has written exactly one line for every      *)
(* line its Scanner has returned, in the order of the input, and no other  *)
(* line, whatever the lines were.                                          *)
C25_OneResponsePerRequestLine ==
    prog \in Programs =>
        /\ Len(stdoutLines) = nRead
        /\ \A k \in 1..Len(stdoutLines) : stdoutLines[k].req = k


(***************************************************************************)
(* The totals and the exit status of the harness.                          *)
(***************************************************************************)
RECURSIVE SumOf(_, _)
SumOf(ts, field) ==
    IF ts = <<>> THEN 0 ELSE Head(ts)[field] + SumOf(Tail(ts), field)

(* C26: once a test of a suite has been recorded failed (skipped and       *)
(* timed-out tests are), the harness can only end with exit status 1; and  *)
(* the totals it prints are the sums of the per-suite tallies, with total  *)
(* tests = total passed + total failed.                                    *)
C26_ExitStatusAndTotals ==
    /\ []((\E j \in DOMAIN suiteResults : ~suiteResults[j].passed)
            => [](exitCode # "running" => exitCode = "exit 1"))
    /\ [](/\ totalTests = totalPassed + totalFailed
          /\ totalTests = SumOf(tallies, "TotalTests")
          /\ totalPassed = SumOf(tallies, "PassedTests")
          /\ totalFailed = SumOf(tallies, "FailedTests")
          /\ \A k \in DOMAIN tallies :
                tallies[k].TotalTests
                    = tallies[k].PassedTests + tallies[k].FailedTests)

C26_Witness ==
    /\ exitCode = "exit 1"
    /\ Len(tallies) = 2
    /\ tallies[1] = [TotalTests |-> 3, PassedTests |-> 1, FailedTests |-> 2]
    /\ tallies[2] = [TotalTests |-> 3, PassedTests |-> 2, FailedTests |-> 1]
    /\ suiteResults[3].cause = "deadline"
    /\ totalTests = 6
    /\ totalFailed = 3

(* The embedded test cases, and the one with a given id.                   *)
EmbeddedTests ==
    UNION {{embedded[f][k] : k \in DOMAIN embedded[f]} : f \in DOMAIN embedded}

EmbeddedTest(id) == CHOOSE t \in EmbeddedTests : t.ID = id

(* C27: whatever the embedded test cases expect, the mock handler answers  *)
(* the request of a test case (its id, its method) with that id and the    *)
(* test's expected success flag and error, and runTest passes the test on  *)
(* the answer as read back from the line; it answers a request with an     *)
(* unknown id with Handler.UNKNOWN_TEST and one with another method than   *)
(* the test's with Handler.METHOD_MISMATCH.                                *)
C27_MockHandlerEchoesExpected ==
    prog = "mock-handler" =>
        \A k \in DOMAIN stdoutLines :
            LET req == stdinLines[stdoutLines[k].req]
                resp == stdoutLines[k].resp
                read == UnmarshalResponse(MarshalResponse(resp))
            IN  /\ req.form = "json"
                /\ IF req.ID \notin {t.ID : t \in EmbeddedTests}
                   THEN read = HandlerError(req.ID, "UNKNOWN_TEST")
                   ELSE LET test == EmbeddedTest(req.ID) IN
                        IF req.Method # test.Method
                        THEN read = HandlerError(req.ID, "METHOD_MISMATCH")
                        ELSE /\ resp.ID = test.ID
                             /\ resp.Success = test.Expected.Success
                             /\ resp.Error = test.Expected.Error
                             /\ runTestBySuccess(test, read) = ""

C27_Witness ==
    /\ prog = "mock-handler"
    /\ Len(stdoutLines) = 2
    /\ stdinLines[1] = [form |-> "json", ID |-> "t1",
                        Method |-> "script_pubkey.verify"]
    /\ stdoutLines[1].resp.Success = FALSE
    /\ stdoutLines[1].resp.Error # Nil
    /\ stdinLines[2] = [form |-> "json", ID |-> "t2", Method |-> "nosuch"]
    /\ stdoutLines[2].resp = HandlerError("t2", "METHOD_MISMATCH")


(***************************************************************************)
(* The goroutine ReadLine starts.                                          *)
(***************************************************************************)
(* C28: the goroutine of every ReadLine ends. After the timer has won the  *)
(* select, the kill ends the child, the end of its output ends the Scan,   *)
(* and the send on scanDone goes through although ReadLine has left the    *)
(* select; so no goroutine stays behind an exited child, and a ReadLine    *)
(* never starts while the goroutine of an earlier one is still scanning.   *)
C28_ReaderAlwaysTerminates ==
    /\ (reader = "scanning") ~> (reader = "done")
    /\ (reader = "scanning" /\ baseErr = ErrHandlerTimeout)
           ~> (reader = "done" /\ child.state = "exited" /\ child.killed)
    /\ (reader = "scanning" /\ child.state = "exited") ~> (reader = "done")
    /\ [](reader = "scanning" => ~SendBlocks(scanDone, FALSE))
    /\ [](hpc = "sent" => reader # "scanning")

C28_Witness ==
    /\ hpc = "failed"
    /\ readResult.err = ErrHandlerTimeout
    /\ child.killed
    /\ child.state = "exited"
    /\ reader = "done"
    /\ scanDone = <<"eof">>
    /\ exchanges = 2


(***************************************************************************)
(* The run's deadline and the test in flight.                              *)
(***************************************************************************)
RealCauses == {"spawn", "write", "readline", "unmarshal", "validate", "pass"}

ReadCauses == {"readline", "unmarshal", "validate", "pass"}

(* C29: a test that was begun before the run's deadline passed is recorded *)
(* with what its own exchange came to, also when the deadline passed while *)
(* it was in flight: a read that is under way when the deadline has passed *)
(* ends with a line read or with ReadLine's own failure. The run-timeout   *)
(* message is recorded only for tests that found the deadline passed when  *)
(* they were to begin, and those wrote no request.                         *)
C29_StartedTestNotPreempted ==
    /\ [](\A j \in DOMAIN results :
            /\ (~results[j].expired /\ results[j].cause # "skip") =>
                  /\ results[j].cause \in RealCauses
                  /\ results[j].message = Message(results[j].cause)
                  /\ results[j].message # MsgRunTimeout
            /\ results[j].message = MsgRunTimeout =>
                  /\ results[j].expired
                  /\ results[j].late
                  /\ results[j].requests = 0
                  /\ results[j].pid = 0)
    /\ [][(rpc = "read" /\ ctxDone /\ rpc' # "read") =>
             /\ Len(results') = Len(results) + 1
             /\ results'[Len(results')].cause \in ReadCauses
             /\ results'[Len(results')].late
             /\ ~results'[Len(results')].expired]_vars

C29_Witness ==
    /\ Len(results) = 3
    /\ results[1].passed
    /\ ~results[1].late
    /\ results[2].cause = "readline"
    /\ results[2].requests = 1
    /\ ~results[2].expired
    /\ results[2].late
    /\ results[3].message = MsgRunTimeout


(***************************************************************************)
(* Stateful suites and the handler process.                                *)
(***************************************************************************)
(* C30: when a stateful suite has finished and the next is yet to be       *)
(* loaded, the runner holds no handler and every process spawned so far,   *)
(* those that served the suite among them, has been closed; every request  *)
(* of a later suite goes to a process spawned after the last one that      *)
(* served the stateful suite, one that has served nothing before.          *)
C30_StatefulSuiteEndsItsHandler ==
    /\ (rpc \in {"load", "done"} /\ suite.Stateful) =>
          /\ tr.handler = Nil
          /\ tr.live = {}
          /\ tr.closed = 1..tr.spawned
          /\ \A j \in DOMAIN results :
                results[j].requests = 1 => results[j].pid <= statefulPid
    /\ 1..statefulPid \subseteq tr.closed
    /\ rpc \in {"check", "send", "read"} =>
          /\ \A j \in DOMAIN results :
                results[j].requests = 1 => results[j].pid > statefulPid
          /\ tr.handler # Nil => Deref(tr.handler) > statefulPid

C30_Witness ==
    /\ si = 2
    /\ rpc = "read"
    /\ statefulPid = 1
    /\ tr.closed = {1}
    /\ tr.handler = Ptr(2)
    /\ ~anyFailed

(***************************************************************************)
(* The request chain as a replay script.                                   *)
(***************************************************************************)
(* C31: the chain BuildRequestChain returns for a test i is closed under   *)
(* dependencies: every reference consumed by i or by a test j of the chain *)
(* is registered by a test of the chain with a smaller index than the      *)
(* consumer, so replaying the chain in ascending order and then i never    *)
(* uses a reference before it was created.                                 *)
C31_RequestChainIsReplayable ==
    \A i \in BuiltTests :
        LET chain == SeqToSet(BuildRequestChain(dt, i, allTests)) IN
        \A j \in chain \cup {i} :
            \A r \in ConsumedRefs(j) :
                \E k \in chain : k < j /\ RegisteredRef(k) = r

(* C31 witness: the chain of the last test is its own chain merged with    *)
(* the state dependencies, and a test of the chain consumes a reference.   *)
C31_Witness ==
    /\ executed = 3
    /\ dt.depChains[2] = <<0>>
    /\ BuildRequestChain(dt, 2, allTests) = <<0, 1>>
    /\ ConsumedRefs(1) # {}
    /\ ConsumedRefs(2) # {}


(***************************************************************************)
(* The results of a suite.                                                 *)
(***************************************************************************)
(* RunTestSuite has returned for the suite at hand.                        *)
SuiteReturned ==
    /\ si > 0
    /\ suite # NoSuite
    /\ \/ rpc = "check" /\ ti > suite.n
       \/ rpc \in {"load", "done"}

(* C32: however the handler behaves, the results RunTestSuite has gathered *)
(* are those of the tests before the one at hand, one each and in file     *)
(* order, and what it returns holds exactly one result per test of the     *)
(* suite with PassedTests + FailedTests = TotalTests = the suite's length. *)
C32_OneResultPerTest ==
    /\ \A j \in DOMAIN results : results[j].TestID = j
    /\ Len(results) <= suite.n
    /\ rpc \in {"check", "send", "read"} => Len(results) = ti - 1
    /\ SuiteReturned =>
          LET result == TestResult(suite, results) IN
          /\ Len(results) = suite.n
          /\ result.PassedTests + result.FailedTests = result.TotalTests
          /\ result.TotalTests = suite.n

(* C32 witness: a suite of three tests has returned after a handler that   *)
(* could not be spawned, one that wrote an unparseable line and one that   *)
(* answered well.                                                          *)
C32_Witness ==
    /\ SuiteReturned
    /\ suite.n = 3
    /\ Len(results) = 3
    /\ {results[j].cause : j \in 1..3} = {"spawn", "unmarshal", "pass"}
    /\ TestResult(suite, results).FailedTests = 2


(***************************************************************************)
(* The error returns of ReadLine.                                          *)
(***************************************************************************)
(* C34 as stated: whenever ReadLine has returned an error, be it the       *)
(* closed stream, the timeout or a scan error of the output stream, the    *)
(* child has been force-killed before and is no longer alive.              *)
C34_ErrorReturnAfterKill ==
    (hpc = "failed" /\ readResult.err \in ReadLineErrors) =>
        /\ child.killed
        /\ child.state = "exited"


C35_StatefulMarksFollowCreator ==
    \A r \in dt.statefulRefs :
        /\ r \in DOMAIN dt.refCreators
        /\ allTests[dt.refCreators[r] + 1].Request.Method
               \in statefulCreatorMethods


(***************************************************************************)
(* go-handler's responses and session state.                               *)
(***************************************************************************)
(* C36: the response handleRequest produced for the request handled last   *)
(* carries that request's id and has exactly one of result and error set,  *)
(* whatever the method and whichever way its handler took; an unknown      *)
(* method is answered with METHOD_NOT_FOUND.                               *)
C36_ExactlyOneOfResultAndError ==
    handled > 0 =>
        /\ sessResp.ID = sessReq.ID
        /\ (sessResp.Result = Nil) # (sessResp.Error = Nil)
        /\ sessReq.Method \notin GoMethods =>
              /\ sessResp.Error # Nil
              /\ Deref(sessResp.Error).Code = ErrMethodNotFound

(* C36 witness: the third request, a chainstate.read_block on a held       *)
(* manager, panicked and was answered with INTERNAL_ERROR under its id.    *)
C36_Witness ==
    /\ handled = 3
    /\ state.chainstateManager # Nil
    /\ sessReq = [ID |-> "t2", Method |-> "chainstate.read_block"]
    /\ sessResp = NewErrorResponse("t2", ErrInternalError,
                                   "Internal error (panic)")

NotInitialized(id) ==
    NewErrorResponse(id, ErrInternalError, "Chainstate not initialized")

(* C37 as stated: a manager is held only after a chainstate.setup that     *)
(* returned success, until the next teardown or setup;                     *)
(* chainstate.read_block answers "Chainstate not initialized" before any   *)
(* setup, after a teardown and after a setup that returned an error; a     *)
(* held manager has its temp directory, and no temp directory remains      *)
(* while no manager is held.                                               *)
C37_ManagerHeldOnlyAfterSetup ==
    /\ state.chainstateManager # Nil => lastSetup = "setup ok"
    /\ (sessReq.Method = "chainstate.read_block" /\ lastSetup # "setup ok") =>
          sessResp = NotInitialized(sessReq.ID)
    /\ state.chainstateManager # Nil =>
          /\ state.tempDir # ""
          /\ state.tempDir \in tempDirs
          /\ state.chainstateManager = Ptr(state.tempDir)
    /\ state.chainstateManager = Nil =>
          /\ state.tempDir = ""
          /\ tempDirs = {}

=============================================================================
